---- MODULE Spec2Model ----
(***************************************************************************)
(* Verification model of bun-security-scanner-snyk.                        *)
(*                                                                         *)
(*   Spec       scanner.scan: validateEnvironmentVariables, SnykClient     *)
(*              (queryVulnerabilities, queryInBatches, executeBatchQuery   *)
(*              under withRetry with DEFAULT_RETRY_CONFIG) and             *)
(*              VulnerabilityProcessor.processVulnerabilities.             *)
(*   SpecRetry  withRetry on its own, for every bounded RetryConfig and    *)
(*              every behaviour of the wrapped operation.                  *)
(*   SpecOSV    OSVClient.queryVulnerabilities: deduplication, the batch   *)
(*              strategy with its detail fetches, and the individual       *)
(*              strategy with pagination, every request under withRetry    *)
(*              with DEFAULT_RETRY_CONFIG.                                 *)
(*   SpecSeverity                                                          *)
(*              mapSeverityToLevel of the Snyk classifier and of the OSV   *)
(*              classifier, applied to bounded vulnerability records.      *)
(*                                                                         *)
(* Strings that the code searches (error.message.includes) are sequences   *)
(* of atoms: a decimal digit is one atom, any run of other text is one     *)
(* atom.  Times are integers in units of 1/TimeScale ms, so that           *)
(* delayMs * 1.5 ** (attempt - 1) is represented exactly.                  *)
(***************************************************************************)
EXTENDS Integers, Sequences, FiniteSets, TLC

VARIABLES
    env,            \* Bun.env: [token: BOOLEAN, orgId: BOOLEAN] (variable is set)
    packages,       \* the package list handed to scan
    pc,             \* position of the running call
    uniquePackages, \* SnykClient.queryVulnerabilities: deduplicated packages
    batchStart,     \* queryInBatches: loop index i (1-based here)
    allIssues,      \* queryInBatches: issues accumulated over the batches
    vulnerabilities,\* result of queryVulnerabilities
    scanResult,     \* how the promise returned by scan settled
    cfg,            \* withRetry: the RetryConfig in force
    attempt,        \* withRetry: loop variable attempt
    lastError,      \* withRetry: lastError
    sleeps,         \* withRetry: delays handed to setTimeout in this call
    now,            \* wall clock
    wakeAt,         \* deadline of the pending setTimeout
    retryResult,    \* how the promise returned by withRetry settled
    plan,           \* the wrapped operation: what its k-th invocation does
    outcomes,       \* history: what each invocation of the operation did
    starts,         \* history: clock value at each invocation
    requestCount,   \* history: HTTP requests sent during the scan
    lastStatus,     \* history: status of the latest response of this batch (0: none)
    authAnswers,    \* history: 401/403 statuses answered during the scan
    batchOf403,     \* history: batchStart at the first 403 answer (0: none)
    caughtKind,     \* history: kind of the error that reached scan's catch
    useBatch,       \* OSVClient.useBatch
    vulnerabilityIds,\* queryWithBatch: identifiers collected over the chunks
    uniqueIds,      \* fetchVulnerabilityDetails: uniqueIds
    detailStart,    \* fetchVulnerabilityDetails: loop index i (1-based here)
    detail,         \* the fetchSingleVulnerability call of each entry of uniqueIds
                    \* (attempt is withRetry's, 0 outside a withRetry call)
    single,         \* the querySinglePackage call of each query
    chunkLog,       \* history: how each chunk of queryWithBatch ended
    queried,        \* history: packages in the order their query was first sent
    vulnerability,           \* mapSeverityToLevel: the vulnerability record
    level,          \* mapSeverityToLevel: the level returned
    settled,        \* history: the concurrent call that settled first
    semverPkg,      \* isPackageAffected: pkg
    semverAffected, \* isPackageAffected: affected
    semverResult,   \* isPackageAffected: the value returned (<<>>: none yet)
    issueAttrs,     \* convertIssuesToVulnerabilities: issue.attributes
    snykVuln,       \* the SnykVulnerability made from the issue
    advisory        \* createAdvisory: url and description of the advisory

vars == <<env, packages, pc, uniquePackages, batchStart, allIssues,
          vulnerabilities, scanResult, cfg, attempt, lastError, sleeps, now,
          wakeAt, retryResult, plan, outcomes, starts, requestCount,
          lastStatus, authAnswers, batchOf403, caughtKind, useBatch,
          vulnerabilityIds, uniqueIds, detailStart, detail, single, chunkLog,
          queried, vulnerability, level, settled, semverPkg, semverAffected,
          semverResult, issueAttrs, snykVuln, advisory>>

severityVars == <<vulnerability, level>>

semverVars == <<semverPkg, semverAffected, semverResult>>

advisoryVars == <<issueAttrs, snykVuln, advisory>>

pureVars == <<severityVars, semverVars, advisoryVars>>

osvVars == <<useBatch, vulnerabilityIds, uniqueIds, detailStart, detail,
             single, chunkLog, queried, settled>>

scanVars == <<env, packages, uniquePackages, batchStart, allIssues,
              vulnerabilities, scanResult, requestCount, lastStatus,
              authAnswers, batchOf403, caughtKind, osvVars>>

----------------------------------------------------------------------------
(* Bounds of the model *)

\* longest package list handed to scan
MaxPkgs == 3

\* most issues in one batch response
MaxIssuesPerResponse == 1

\* SNYK_API.MAX_BATCH_SIZE is 100 and OSV_API.MAX_BATCH_SIZE is 1000 in the
\* source; scaled down so that a list of MaxPkgs packages needs more than
\* one batch
MAX_BATCH_SIZE == 2

\* largest maxAttempts explored for withRetry
MaxAttemptsBound == 3

\* largest delayMs explored for withRetry
MaxDelayMs == 2

----------------------------------------------------------------------------
(* Program constants *)

MAX_RETRY_ATTEMPTS == 2

RETRY_DELAY_MS == 1000

----------------------------------------------------------------------------
(* Text *)

Digit == <<"0", "1", "2", "3", "4", "5", "6", "7", "8", "9">>

\* `${res.status}` for a three-digit status
StatusDigits(n) ==
    <<Digit[(n \div 100) + 1], Digit[((n \div 10) % 10) + 1], Digit[(n % 10) + 1]>>

StatusText(n) ==
    CASE n = 400 -> "Bad Request"
      [] n = 401 -> "Unauthorized"
      [] n = 404 -> "Not Found"
      [] n = 500 -> "Internal Server Error"
      [] OTHER   -> "Error"

\* String.prototype.includes
Includes(msg, pat) ==
    \E i \in 1..(Len(msg) - Len(pat) + 1) : SubSeq(msg, i, i + Len(pat) - 1) = pat

RECURSIVE Join(_, _)
\* Array.prototype.join on an array of strings
Join(strs, sep) ==
    IF Len(strs) = 0 THEN <<>>
    ELSE IF Len(strs) = 1 THEN strs[1]
    ELSE strs[1] \o sep \o Join(Tail(strs), sep)

RECURSIVE Pow(_, _)
Pow(b, e) == IF e = 0 THEN 1 ELSE b * Pow(b, e - 1)

----------------------------------------------------------------------------
(* Errors *)

Undefined == "undefined"

Err(kind, message) == [kind |-> kind, message |-> message]

NoError == Err("none", <<>>)

\* let lastError: Error = new Error("Unknown error")
UnknownError == Err("Error", <<"Unknown error">>)

----------------------------------------------------------------------------
(* retry.ts *)

\* ticks per millisecond: 1.5 ** (attempt - 1) has denominator 2 ** (attempt - 1)
TimeScale == Pow(2, MaxAttemptsBound)

\* DEFAULT_RETRY_CONFIG.shouldRetry
DefaultShouldRetry(error) ==
    IF \/ Includes(error.message, <<"4", "0", "0">>)
       \/ Includes(error.message, <<"4", "0", "1">>)
       \/ Includes(error.message, <<"4", "0", "3">>)
    THEN FALSE
    ELSE IF Includes(error.message, <<"4", "0", "4">>)
    THEN FALSE
    ELSE TRUE

DEFAULT_RETRY_CONFIG ==
    [maxAttempts |-> MAX_RETRY_ATTEMPTS + 1,
     delayMs     |-> RETRY_DELAY_MS,
     shouldRetry |-> "default"]

\* the shouldRetry callbacks a RetryConfig may carry ("absent": the field is
\* left out)
Policies == {"default", "always", "never", "absent"}

\* config.shouldRetry?.(lastError) ?? true
ShouldRetry(config, error) ==
    CASE config.shouldRetry = "default" -> DefaultShouldRetry(error)
      [] config.shouldRetry = "always"  -> TRUE
      [] config.shouldRetry = "never"   -> FALSE
      [] OTHER                          -> TRUE

\* lastError = error instanceof Error ? error : new Error(String(error))
ToError(thrown) ==
    IF thrown.kind = "nonError" THEN Err("Error", thrown.message) ELSE thrown

\* variant: the last attempt is taken to be the one before maxAttempts
IsLastAttempt_early(config, n) == n = config.maxAttempts - 1

\* const isLastAttempt = attempt === config.maxAttempts
IsLastAttempt(config, n) == n = config.maxAttempts

\* variant: the negation of shouldRetry is dropped
GivesUp_negationDropped(config, n, error) ==
    IsLastAttempt(config, n) \/ ShouldRetry(config, error)

\* if (isLastAttempt || !shouldRetry) { ... break; }  followed by throw lastError
GivesUp(config, n, error) ==
    IsLastAttempt(config, n) \/ ~ShouldRetry(config, error)

\* variant: the exponent is attempt instead of attempt - 1
BackoffDelay_exponentAttempt(config, n) ==
    (config.delayMs * Pow(3, n) * TimeScale) \div Pow(2, n)

\* const delay = config.delayMs * 1.5 ** (attempt - 1), in ticks
BackoffDelay(config, n) ==
    (config.delayMs * Pow(3, n - 1) * TimeScale) \div Pow(2, n - 1)

\* what the wrapped operation may throw in SpecRetry
Throwables ==
    { Err("Error", <<"Network error">>),
      Err("Error", <<"HTTP ", "4", "0", "4", ": Not Found">>),
      Err("Error", <<"HTTP ", "5", "0", "0", ": Internal Server Error">>),
      Err("nonError", <<"String error">>) }

\* what the wrapped operation may return in SpecRetry
ReturnValues == { Err("value", <<"success">>), Err("value", <<"other">>) }

\* the behaviours of a wrapped operation: for each invocation, whether it
\* returns and the value it returns or throws
Plans ==
    [1..MaxAttemptsBound ->
        [ok : {TRUE}, value : ReturnValues] \cup [ok : {FALSE}, value : Throwables]]

Pending == [status |-> "pending", value |-> NoError]

RetryConfigs ==
    [maxAttempts : 1..MaxAttemptsBound,
     delayMs     : 0..MaxDelayMs,
     shouldRetry : Policies]

\* no OSVClient call is running
OSVIdle ==
    /\ useBatch = TRUE
    /\ vulnerabilityIds = <<>>
    /\ uniqueIds = <<>>
    /\ detailStart = 0
    /\ detail = <<>>
    /\ single = <<>>
    /\ chunkLog = <<>>
    /\ queried = <<>>
    /\ settled = <<>>

\* no classification is running
SeverityIdle ==
    /\ vulnerability = [source |-> "none", vendorSeverity |-> Undefined,
               cvssScore |-> <<>>, severity |-> <<>>]
    /\ level = Undefined

\* no isPackageAffected call is running
SemverIdle ==
    /\ semverPkg = [name |-> Undefined, version |-> <<>>]
    /\ semverAffected = [package |-> [name |-> Undefined], versions |-> <<>>,
                         ranges |-> <<>>]
    /\ semverResult = <<>>

\* no advisory is being made
AdvisoryIdle ==
    /\ issueAttrs = [title |-> <<>>, description |-> <<>>, references |-> <<>>]
    /\ snykVuln = [title |-> <<>>, description |-> <<>>, url |-> <<>>]
    /\ advisory = [url |-> <<>>, description |-> <<>>]

PureIdle == SeverityIdle /\ SemverIdle /\ AdvisoryIdle

ScanIdle ==
    /\ env = [token |-> TRUE, orgId |-> TRUE]
    /\ packages = <<>>
    /\ uniquePackages = <<>>
    /\ batchStart = 0
    /\ allIssues = <<>>
    /\ vulnerabilities = <<>>
    /\ scanResult = [status |-> "pending", advisories |-> <<>>, error |-> NoError]
    /\ requestCount = 0
    /\ lastStatus = 0
    /\ authAnswers = {}
    /\ batchOf403 = 0
    /\ caughtKind = "none"
    /\ OSVIdle

\* withRetry(operation, operationName, config) has been called and the first
\* invocation of operation is running
InitRetry ==
    /\ ScanIdle
    /\ PureIdle
    /\ cfg \in RetryConfigs
    /\ pc = "r_op"
    /\ attempt = 1
    /\ lastError = UnknownError
    /\ sleeps = <<>>
    /\ now = 0
    /\ wakeAt = 0
    /\ retryResult = Pending
    /\ plan \in Plans
    /\ outcomes = <<>>
    /\ starts = <<0>>

\* const result = await operation(); return result
OperationReturns ==
    /\ pc = "r_op"
    /\ plan[attempt].ok
    /\ \E d \in 0..1 : now' = now + d
    /\ outcomes' = Append(outcomes, [ok |-> TRUE, value |-> plan[attempt].value, at |-> now'])
    /\ retryResult' = [status |-> "returned", value |-> plan[attempt].value]
    /\ pc' = "r_done"
    /\ UNCHANGED <<scanVars, pureVars, cfg, attempt, lastError, sleeps, wakeAt, plan, starts>>

\* await operation() throws: the catch branch of withRetry
OperationThrows ==
    /\ pc = "r_op"
    /\ ~plan[attempt].ok
    /\ \E d \in 0..1 : now' = now + d
    /\ outcomes' = Append(outcomes, [ok |-> FALSE, value |-> plan[attempt].value, at |-> now'])
    /\ lastError' = ToError(plan[attempt].value)
    /\ IF GivesUp(cfg, attempt, lastError')
       THEN /\ retryResult' = [status |-> "thrown", value |-> lastError']
            /\ pc' = "r_done"
            /\ UNCHANGED <<sleeps, wakeAt>>
       ELSE /\ sleeps' = Append(sleeps, BackoffDelay(cfg, attempt))
            /\ wakeAt' = now' + BackoffDelay(cfg, attempt)
            /\ pc' = "r_sleep"
            /\ UNCHANGED retryResult
    /\ UNCHANGED <<scanVars, pureVars, cfg, attempt, plan, starts>>

\* time passes, one millisecond at a time, while the timer is pending
Tick ==
    /\ pc = "r_sleep"
    /\ now < wakeAt
    /\ now' = now + TimeScale
    /\ UNCHANGED <<scanVars, pureVars, cfg, pc, attempt, lastError, sleeps, wakeAt,
                   retryResult, plan, outcomes, starts>>

\* the setTimeout callback resolves the awaited promise; attempt++ and the
\* loop test, then the next invocation of operation
WakeUp ==
    /\ pc = "r_sleep"
    /\ now >= wakeAt
    /\ attempt' = attempt + 1
    /\ IF attempt' <= cfg.maxAttempts
       THEN /\ pc' = "r_op"
            /\ starts' = Append(starts, now)
            /\ UNCHANGED retryResult
       ELSE /\ pc' = "r_done"
            /\ retryResult' = [status |-> "thrown", value |-> lastError]
            /\ UNCHANGED starts
    /\ UNCHANGED <<scanVars, pureVars, cfg, lastError, sleeps, now, wakeAt, plan, outcomes>>

NextRetry == OperationReturns \/ OperationThrows \/ Tick \/ WakeUp

SpecRetry == InitRetry /\ [][NextRetry]_vars

----------------------------------------------------------------------------
(* index.ts, client.ts (SnykClient), purl.ts, processor.ts *)

\* the packages a scan may be asked about
PackageUniverse ==
    { [name |-> "A", version |-> "1"],
      [name |-> "A", version |-> "2"],
      [name |-> "B", version |-> "1"] }

\* identifiers of the issues the Snyk database holds
VulnIds == {"V1", "V2"}

SeqsUpTo(S, n) == UNION { [1..k -> S] : k \in 0..n }

\* `${pkg.name}@${pkg.version}`
Key(pkg) == <<pkg.name, "@", pkg.version>>

\* toPURL for an unscoped name (no package of PackageUniverse is scoped)
toPURL(name, version) == <<"pkg:npm/", name, "@", version>>

\* packagesToPURLs
packagesToPURLs(pkgs) == [i \in 1..Len(pkgs) |-> toPURL(pkgs[i].name, pkgs[i].version)]

\* a Map in insertion order: a sequence of [key, value]
MapHas(m, k) == \E i \in 1..Len(m) : m[i].key = k

\* what a lookup of a package yields when there is none (undefined, null)
NoPackage == [name |-> Undefined, version |-> Undefined]

\* Map.prototype.get on a map of packages
MapGet(m, k) ==
    IF MapHas(m, k)
    THEN m[CHOOSE i \in 1..Len(m) : m[i].key = k].value
    ELSE NoPackage

\* Map.prototype.set: a present key keeps its position
MapSet(m, k, v) ==
    IF MapHas(m, k)
    THEN [i \in 1..Len(m) |-> IF m[i].key = k THEN [key |-> k, value |-> v] ELSE m[i]]
    ELSE Append(m, [key |-> k, value |-> v])

\* Array.from(map.values())
MapValues(m) == [i \in 1..Len(m) |-> m[i].value]

\* variant: every package is kept
deduplicatePackages_keepAll(pkgs) == pkgs

\* deduplicatePackages, the same in SnykClient and OSVClient
deduplicatePackages(pkgs) ==
    LET packageMap[i \in 0..Len(pkgs)] ==
            IF i = 0 THEN <<>>
            ELSE IF ~MapHas(packageMap[i - 1], Key(pkgs[i]))
                 THEN MapSet(packageMap[i - 1], Key(pkgs[i]), pkgs[i])
                 ELSE packageMap[i - 1]
    IN  MapValues(packageMap[Len(pkgs)])

\* purls.slice(i, i + SNYK_API.MAX_BATCH_SIZE), i = start - 1
BatchSlice(s, start) ==
    SubSeq(s, start, IF start + MAX_BATCH_SIZE - 1 <= Len(s)
                     THEN start + MAX_BATCH_SIZE - 1 ELSE Len(s))

\* the 403 branch of executeBatchQuery; body.parsed: res.json() succeeded and
\* the body matches SnykErrorSchema, body.errors: its errors array
PermissionError(body) ==
    LET errorMessage == <<"Organization is not allowed to perform this action.">>
    IN  IF body.parsed /\ Len(body.errors) > 0
        THEN Err("SnykPermissionError",
                 IF body.errors[1].detail # <<>> THEN body.errors[1].detail
                 ELSE errorMessage)
        ELSE Err("SnykPermissionError", errorMessage)

\* the 429 branch: retryAfter is the header value, <<>> when absent
RateLimitError(retryAfter) ==
    IF retryAfter # <<>>
    THEN Err("Error", <<"Rate limit exceeded. Retry after ">> \o retryAfter \o <<" seconds.">>)
    ELSE Err("Error", <<"Rate limit exceeded.">>)

\* the !res.ok branch
NotOkError(status, body) ==
    LET errorMessage == <<"Snyk API returned ">> \o StatusDigits(status)
                          \o <<": ", StatusText(status)>>
    IN  IF body.parsed /\ Len(body.errors) > 0
        THEN Err("Error",
                 Join([i \in 1..Len(body.errors) |-> body.errors[i].detail], <<", ">>))
        ELSE Err("Error", errorMessage)

\* fetch rejects: connection failure, or AbortSignal.timeout fires
FetchFailures ==
    { Err("Error", <<"Unable to connect. Is the computer able to access the url?">>),
      Err("Error", <<"The operation timed out.">>) }

\* error bodies the API may send with a non-2xx status
ErrorBodies ==
    { [parsed |-> FALSE, errors |-> <<>>],
      [parsed |-> TRUE,  errors |-> <<>>],
      [parsed |-> TRUE,  errors |-> << [detail |-> <<>>] >>],
      [parsed |-> TRUE,  errors |-> << [detail |-> <<"Access denied for this organization">>] >>] }

\* Retry-After header values (<<>>: header absent)
RetryAfterValues == { <<>>, <<"6", "0">>, <<"4", "0", "0">> }

\* statuses taken by the !res.ok branch
NotOkStatuses == {400, 401, 404, 500}

\* issues of a valid 200 body for a batch of packages: each issue carries,
\* besides what the client reads, the package it was reported for
IssuesFor(batch) ==
    [id : VulnIds, affects : { batch[i] : i \in 1..Len(batch) }]

\* SnykClient.convertIssuesToVulnerabilities: packageName and packageVersion
\* are never assigned
convertIssuesToVulnerabilities(issues) ==
    [i \in 1..Len(issues) |->
        [id |-> issues[i].id,
         packageName |-> Undefined,
         packageVersion |-> Undefined]]

\* VulnerabilityProcessor.findMatchingPackage (null is Undefined here)
findMatchingPackage(vuln, packageMap) ==
    IF vuln.packageName # Undefined /\ vuln.packageVersion # Undefined
    THEN MapGet(packageMap, <<vuln.packageName, "@", vuln.packageVersion>>)
    ELSE IF Len(packageMap) > 0 THEN packageMap[1].value ELSE NoPackage

\* VulnerabilityProcessor.createAdvisory; version is not a field of the
\* advisory, it records which package@version the advisory was created for
createAdvisory(vuln, pkg) ==
    [id |-> vuln.id, package |-> pkg.name, version |-> pkg.version]

\* VulnerabilityProcessor.processVulnerabilities
processVulnerabilities(vulns, pkgs) ==
    IF Len(vulns) = 0 \/ Len(pkgs) = 0 THEN <<>>
    ELSE
      LET packageMap[i \in 0..Len(pkgs)] ==
              IF i = 0 THEN <<>>
              ELSE MapSet(packageMap[i - 1], Key(pkgs[i]), pkgs[i])
          pm == packageMap[Len(pkgs)]
          advisories[i \in 0..Len(vulns)] ==
              IF i = 0 THEN <<>>
              ELSE LET matchedPackage == findMatchingPackage(vulns[i], pm)
                   IN  IF matchedPackage # NoPackage
                       THEN Append(advisories[i - 1], createAdvisory(vulns[i], matchedPackage))
                       ELSE advisories[i - 1]
      IN  advisories[Len(vulns)]

\* validateEnvironmentVariables: the error it throws, NoError when it returns
validateEnvironmentVariables(e) ==
    IF ~e.token \/ ~e.orgId
    THEN Err("Error",
             <<"Snyk API credentials not configured ... Missing environment variables: ">>
             \o Join((IF ~e.token THEN << <<"SNYK_API_TOKEN">> >> ELSE <<>>)
                     \o (IF ~e.orgId THEN << <<"SNYK_ORG_ID">> >> ELSE <<>>), <<", ">>))
    ELSE NoError

\* new SnykClient(): the error it throws, NoError when it returns
SnykClientConstructor(e) ==
    IF ~e.orgId \/ ~e.token
    THEN Err("Error", <<"SNYK_ORG_ID and SNYK_API_TOKEN must be set">>)
    ELSE NoError

\* variant: the catch block rethrows whatever it caught
ScanCatch_rethrowAll(error) ==
    [status |-> "rejected", advisories |-> <<>>,
     error |-> Err("Error", error.message)]

\* the catch block of scanner.scan: the settled promise
ScanCatch(error) ==
    IF error.kind = "SnykPermissionError"
    THEN [status |-> "rejected", advisories |-> <<>>,
          error |-> Err("Error", <<"Snyk API permission denied ... Error: ">>
                                 \o error.message)]
    ELSE [status |-> "resolved", advisories |-> <<>>, error |-> NoError]

\* exceptions injected into queryVulnerabilities / processVulnerabilities, as
\* the scanner tests do with mocks
UnexpectedFaults ==
    { Err("Error", <<"Network error">>), Err("nonError", <<"Processor error">>) }

----------------------------------------------------------------------------
(* scanner.scan as a state machine; a step ends where the code awaits *)

RetryIdle ==
    /\ now = 0
    /\ wakeAt = 0
    /\ retryResult = Pending
    /\ plan = <<>>
    /\ outcomes = <<>>
    /\ starts = <<>>

\* scan({ packages }) has been called
Init ==
    /\ env \in [token : BOOLEAN, orgId : BOOLEAN]
    /\ packages \in SeqsUpTo(PackageUniverse, MaxPkgs)
    /\ pc = "start"
    /\ uniquePackages = <<>>
    /\ batchStart = 0
    /\ allIssues = <<>>
    /\ vulnerabilities = <<>>
    /\ scanResult = [status |-> "pending", advisories |-> <<>>, error |-> NoError]
    /\ cfg = DEFAULT_RETRY_CONFIG
    /\ attempt = 0
    /\ lastError = NoError
    /\ sleeps = <<>>
    /\ requestCount = 0
    /\ lastStatus = 0
    /\ authAnswers = {}
    /\ batchOf403 = 0
    /\ caughtKind = "none"
    /\ RetryIdle
    /\ OSVIdle
    /\ PureIdle

retryHistory == <<now, wakeAt, retryResult, plan, outcomes, starts>>

\* an exception reaches the catch block of scan
Caught(error) ==
    /\ scanResult' = ScanCatch(error)
    /\ caughtKind' = error.kind
    /\ pc' = "done"

\* scan, line 59: validateEnvironmentVariables()
ScanStart ==
    /\ pc = "start"
    /\ IF validateEnvironmentVariables(env) # NoError
       THEN Caught(validateEnvironmentVariables(env))
       ELSE /\ pc' = "query"
            /\ UNCHANGED <<scanResult, caughtKind>>
    /\ UNCHANGED <<env, packages, uniquePackages, batchStart, allIssues,
                   vulnerabilities, cfg, attempt, lastError, sleeps,
                   requestCount, lastStatus, authAnswers, batchOf403, retryHistory,
                   osvVars, pureVars>>

\* new SnykClient() and client.queryVulnerabilities(packages) up to the loop
\* of queryInBatches
QueryVulnerabilities ==
    /\ pc = "query"
    /\ IF SnykClientConstructor(env) # NoError
       THEN /\ Caught(SnykClientConstructor(env))
            /\ UNCHANGED <<uniquePackages, batchStart, allIssues, vulnerabilities>>
       ELSE IF Len(packages) = 0
       THEN /\ vulnerabilities' = <<>>
            /\ pc' = "process"
            /\ UNCHANGED <<uniquePackages, batchStart, allIssues, scanResult, caughtKind>>
       ELSE /\ uniquePackages' = deduplicatePackages(packages)
            /\ allIssues' = <<>>
            /\ batchStart' = 1
            /\ pc' = "batch"
            /\ UNCHANGED <<vulnerabilities, scanResult, caughtKind>>
    /\ UNCHANGED <<env, packages, cfg, attempt, lastError, sleeps, requestCount,
                   lastStatus, authAnswers, batchOf403, retryHistory,
                   osvVars, pureVars>>

\* queryVulnerabilities rejects with an unexpected exception
QueryVulnerabilitiesThrows ==
    /\ pc = "query"
    /\ \E e \in UnexpectedFaults : Caught(e)
    /\ UNCHANGED <<env, packages, uniquePackages, batchStart, allIssues,
                   vulnerabilities, cfg, attempt, lastError, sleeps,
                   requestCount, lastStatus, authAnswers, batchOf403, retryHistory,
                   osvVars, pureVars>>

\* queryInBatches: the loop test; either the next executeBatchQuery sends its
\* first request, or the loop ends and the issues are converted
NextBatch ==
    /\ pc = "batch"
    /\ IF batchStart <= Len(packagesToPURLs(uniquePackages))
       THEN /\ attempt' = 1
            /\ lastError' = UnknownError
            /\ sleeps' = <<>>
            /\ lastStatus' = 0
            /\ requestCount' = requestCount + 1
            /\ pc' = "fetch"
            /\ UNCHANGED vulnerabilities
       ELSE /\ vulnerabilities' = convertIssuesToVulnerabilities(allIssues)
            /\ pc' = "process"
            /\ UNCHANGED <<attempt, lastError, sleeps, lastStatus, requestCount>>
    /\ UNCHANGED <<env, packages, uniquePackages, batchStart, allIssues,
                   scanResult, cfg, authAnswers, batchOf403, caughtKind, retryHistory,
                   osvVars, pureVars>>

\* the operation passed to withRetry threw e after a response with the given
\* status (0: no response): catch branch of withRetry, then, when withRetry
\* gives up, the catch of queryInBatches and of scan
AttemptFails(e, status) ==
    /\ lastError' = ToError(e)
    /\ lastStatus' = status
    /\ authAnswers' = authAnswers \cup ({status} \cap {401, 403})
    /\ batchOf403' = IF status = 403 /\ batchOf403 = 0 THEN batchStart ELSE batchOf403
    /\ IF GivesUp(cfg, attempt, lastError')
       THEN IF lastError'.kind = "SnykPermissionError"
            THEN /\ Caught(lastError')
                 /\ UNCHANGED <<batchStart, sleeps>>
            ELSE /\ batchStart' = batchStart + MAX_BATCH_SIZE
                 /\ pc' = "batch"
                 /\ UNCHANGED <<scanResult, caughtKind, sleeps>>
       ELSE /\ sleeps' = Append(sleeps, BackoffDelay(cfg, attempt))
            /\ pc' = "sleep"
            /\ UNCHANGED <<batchStart, scanResult, caughtKind>>
    /\ UNCHANGED <<env, packages, uniquePackages, allIssues, vulnerabilities,
                   cfg, attempt, requestCount, retryHistory,
                   osvVars, pureVars>>

\* the response is 200: withRetry returns it; response.json() and
\* SnykIssuesResponseSchema.parse either throw (caught by queryInBatches) or
\* yield the issues, which are appended
FetchOk ==
    /\ pc = "fetch"
    /\ \E valid \in BOOLEAN :
       \E data \in SeqsUpTo(IssuesFor(BatchSlice(uniquePackages, batchStart)),
                            MaxIssuesPerResponse) :
          /\ ~valid => data = <<>>
          /\ allIssues' = IF valid THEN allIssues \o data ELSE allIssues
    /\ lastStatus' = 200
    /\ batchStart' = batchStart + MAX_BATCH_SIZE
    /\ pc' = "batch"
    /\ UNCHANGED <<env, packages, uniquePackages, vulnerabilities, scanResult,
                   cfg, attempt, lastError, sleeps, requestCount, authAnswers,
                   batchOf403, caughtKind, retryHistory,
                   osvVars, pureVars>>

\* the response is 403
FetchForbidden ==
    /\ pc = "fetch"
    /\ \E body \in ErrorBodies : AttemptFails(PermissionError(body), 403)

\* the response is 429
FetchRateLimited ==
    /\ pc = "fetch"
    /\ \E retryAfter \in RetryAfterValues : AttemptFails(RateLimitError(retryAfter), 429)

\* the response has another status that is not ok
FetchNotOk ==
    /\ pc = "fetch"
    /\ \E status \in NotOkStatuses, body \in ErrorBodies :
          AttemptFails(NotOkError(status, body), status)

\* fetch rejects
FetchRejects ==
    /\ pc = "fetch"
    /\ \E e \in FetchFailures : AttemptFails(e, 0)

\* the backoff timer fires: attempt++ and the next request is sent
SleepDone ==
    /\ pc = "sleep"
    /\ attempt' = attempt + 1
    /\ requestCount' = requestCount + 1
    /\ pc' = "fetch"
    /\ UNCHANGED <<env, packages, uniquePackages, batchStart, allIssues,
                   vulnerabilities, scanResult, cfg, lastError, sleeps,
                   lastStatus, authAnswers, batchOf403, caughtKind, retryHistory,
                   osvVars, pureVars>>

\* processor.processVulnerabilities(vulnerabilities, packages); return advisories
ProcessVulnerabilities ==
    /\ pc = "process"
    /\ scanResult' = [status |-> "resolved",
                      advisories |-> processVulnerabilities(vulnerabilities, packages),
                      error |-> NoError]
    /\ pc' = "done"
    /\ UNCHANGED <<env, packages, uniquePackages, batchStart, allIssues,
                   vulnerabilities, cfg, attempt, lastError, sleeps,
                   requestCount, lastStatus, authAnswers, batchOf403,
                   caughtKind, retryHistory,
                   osvVars, pureVars>>

\* processVulnerabilities throws an unexpected exception
ProcessVulnerabilitiesThrows ==
    /\ pc = "process"
    /\ \E e \in UnexpectedFaults : Caught(e)
    /\ UNCHANGED <<env, packages, uniquePackages, batchStart, allIssues,
                   vulnerabilities, cfg, attempt, lastError, sleeps,
                   requestCount, lastStatus, authAnswers, batchOf403, retryHistory,
                   osvVars, pureVars>>

Next ==
    \/ ScanStart
    \/ QueryVulnerabilities
    \/ QueryVulnerabilitiesThrows
    \/ NextBatch
    \/ FetchOk
    \/ FetchForbidden
    \/ FetchRateLimited
    \/ FetchNotOk
    \/ FetchRejects
    \/ SleepDone
    \/ ProcessVulnerabilities
    \/ ProcessVulnerabilitiesThrows

Spec == Init /\ [][Next]_vars

----------------------------------------------------------------------------
(* client.ts (OSVClient) *)

\* identifiers of the vulnerabilities the OSV database holds
OSVIds == {"V1", "V2", "V3"}

\* continuation tokens of the OSV API: Tokens[n] is the next_page_token of
\* the n-th page of a query that has more pages
Tokens == <<"t1", "t2", "t3", "t4">>

\* most pages the API serves for one query
MaxPages == 2

\* PERFORMANCE.MAX_CONCURRENT_DETAILS is 10 in the source; scaled down so
\* that the identifiers of OSVIds need more than one chunk
MAX_CONCURRENT_DETAILS == 2

snykVars == <<env, allIssues, scanResult, sleeps, requestCount, lastStatus,
              authAnswers, batchOf403, caughtKind>>

\* [...new Set(ids)]: the first occurrence of each element, in order
NewSet(ids) ==
    LET kept[i \in 0..Len(ids)] ==
            IF i = 0 THEN <<>>
            ELSE IF \E j \in 1..Len(kept[i - 1]) : kept[i - 1][j] = ids[i]
                 THEN kept[i - 1]
                 ELSE Append(kept[i - 1], ids[i])
    IN  kept[Len(ids)]

\* uniquePackages.map((pkg) => ({ package: { name, ecosystem }, version }))
OSVQueries(pkgs) ==
    [i \in 1..Len(pkgs) |->
        [name |-> pkgs[i].name, ecosystem |-> "npm",
         version |-> pkgs[i].version, page_token |-> Undefined]]

\* variant: batching alone selects the batch strategy
UsesBatch_always(batch, queries) == batch

\* the strategy test of queryVulnerabilities
UsesBatch(batch, queries) == batch /\ Len(queries) > 1

\* new Error(`${prefix}${res.status}: ${res.statusText}`)
HttpError(prefix, status) ==
    Err("Error", <<prefix>> \o StatusDigits(status) \o <<": ", StatusText(status)>>)

\* what one attempt of a request may throw: !res.ok, or fetch rejects
RequestFailures(prefix) ==
    { HttpError(prefix, 500), HttpError(prefix, 404) } \cup FetchFailures

RECURSIVE Flatten(_)
\* vulnerabilities.push(...value) over a list of lists
Flatten(lists) ==
    IF Len(lists) = 0 THEN <<>> ELSE Head(lists) \o Flatten(Tail(lists))

\* the identifiers the OSV database lists for each package
OSVDatabase(pkg) ==
    CASE pkg = [name |-> "A", version |-> "1"] -> <<"V1", "V2">>
      [] pkg = [name |-> "A", version |-> "2"] -> <<"V2">>
      [] OTHER                                 -> <<"V3", "V1">>

\* results.vulns of a batch response for a chunk of queries, flattened in
\* query order as executeBatchQuery pushes them
BatchResponseIds(chunk) ==
    Flatten([i \in 1..Len(chunk) |-> OSVDatabase(chunk[i])])

\* a batch response that pages its results: for each query the first
\* identifier the database lists, and a next_page_token when it lists more;
\* withheld are the identifiers behind those tokens
PagedBatchResponse(chunk) ==
    [ids      |-> Flatten([i \in 1..Len(chunk) |-> SubSeq(OSVDatabase(chunk[i]), 1, 1)]),
     withheld |-> Flatten([i \in 1..Len(chunk) |-> Tail(OSVDatabase(chunk[i]))])]

\* response.json() or the schema's parse throws
ParseFailure == Err("Error", <<"Invalid input: expected array, received undefined">>)

------------------------------------------------------------------------
(* queryWithBatch, executeBatchQuery *)

\* variant: a failed chunk ends the loop
AfterFailedChunk_abort(i, n) == n + 1

\* the catch block of queryWithBatch falls through to i += MAX_BATCH_SIZE
AfterFailedChunk(i, n) == i + MAX_BATCH_SIZE

\* variant: the identifiers are fetched as they were collected
DetailIds_keepAll(ids) == ids

\* const uniqueIds = [...new Set(ids)]
DetailIds(ids) == NewSet(ids)

\* variant: one chunk holds every identifier
DetailChunkEnd_all(i, n) == n

\* uniqueIds.slice(i, i + chunkSize): index of the last entry of the chunk
DetailChunkEnd(i, n) ==
    IF i + MAX_CONCURRENT_DETAILS - 1 <= n THEN i + MAX_CONCURRENT_DETAILS - 1 ELSE n

DetailChunk(i, n) == i..DetailChunkEnd(i, n)

\* chunk.map((id) => this.fetchSingleVulnerability(id)): every call of the
\* chunk sends its first request
StartDetailChunk(d, i) ==
    [k \in DOMAIN d |->
        IF k \in DetailChunk(i, Len(d)) THEN [state |-> "fetch", attempt |-> 1] ELSE d[k]]

\* the record OSVVulnerabilitySchema.parse yields for /vulns/${id}
DetailRecord(id) == [id |-> id]

\* for (const result of chunkResults) if (fulfilled && value) push
ChunkResults(ids, d, i) ==
    LET picked[k \in (i - 1)..DetailChunkEnd(i, Len(ids))] ==
            IF k = i - 1 THEN <<>>
            ELSE IF d[k].state = "ok"
                 THEN Append(picked[k - 1], DetailRecord(ids[k]))
                 ELSE picked[k - 1]
    IN  picked[DetailChunkEnd(i, Len(ids))]

\* number of fetchSingleVulnerability calls started and not settled
InFlight == Cardinality({ k \in DOMAIN detail : detail[k].state \in {"fetch", "sleep"} })

------------------------------------------------------------------------
(* querySinglePackage *)

\* variant: the continuation token is not attached
NextQuery_noToken(query, token) == query

\* currentQuery = { ...query, page_token: parsed.next_page_token }
NextQuery(query, token) == [query EXCEPT !.page_token = token]

\* variant: the results of the calls that settled first come first
ResultOrder_completion(n, order) ==
    order \o SelectSeq([k \in 1..n |-> k],
                       LAMBDA k : \A i \in 1..Len(order) : order[i] # k)

\* for (const response of responses): Promise.allSettled keeps the order of
\* the calls, whatever the order they settled in
ResultOrder(n, order) == [k \in 1..n |-> k]

\* variant: a failed query yields nothing
SingleYield_dropFailed(proc) == IF proc.failed THEN <<>> ELSE proc.allVulns

\* return allVulns
SingleYield(proc) == proc.allVulns

\* the records of the page the API serves for a query: one record, named by
\* the package and the page
PageVulns(query) ==
    << [id |-> <<query.name, "@", query.version, "#", query.page_token>>] >>

\* the body of a request for the page after `got` pages
Request(got, query) == [page |-> got + 1, body |-> query]

\* querySinglePackage(query) up to its first await: the first request is sent
StartSingle(query) ==
    [state        |-> "fetch",
     attempt      |-> 1,
     currentQuery |-> query,
     allVulns     |-> <<>>,
     failed       |-> FALSE,
     pages        |-> <<>>,
     sent         |-> { Request(0, query) }]

------------------------------------------------------------------------
(* OSVClient.queryVulnerabilities as a state machine *)

\* client.queryVulnerabilities(packages) has been called
InitOSV ==
    /\ env = [token |-> TRUE, orgId |-> TRUE]
    /\ packages \in SeqsUpTo(PackageUniverse, MaxPkgs)
    /\ useBatch \in BOOLEAN
    /\ pc = "o_start"
    /\ uniquePackages = <<>>
    /\ batchStart = 0
    /\ allIssues = <<>>
    /\ vulnerabilities = <<>>
    /\ scanResult = [status |-> "pending", advisories |-> <<>>, error |-> NoError]
    /\ cfg = DEFAULT_RETRY_CONFIG
    /\ attempt = 0
    /\ lastError = NoError
    /\ sleeps = <<>>
    /\ requestCount = 0
    /\ lastStatus = 0
    /\ authAnswers = {}
    /\ batchOf403 = 0
    /\ caughtKind = "none"
    /\ RetryIdle
    /\ vulnerabilityIds = <<>>
    /\ uniqueIds = <<>>
    /\ detailStart = 0
    /\ detail = <<>>
    /\ single = <<>>
    /\ chunkLog = <<>>
    /\ queried = <<>>
    /\ settled = <<>>
    /\ PureIdle

\* queryVulnerabilities: deduplication and choice of strategy; the individual
\* strategy starts every querySinglePackage call at once
OSVQueryVulnerabilities ==
    /\ pc = "o_start"
    /\ IF Len(packages) = 0
       THEN /\ pc' = "o_done"
            /\ UNCHANGED <<uniquePackages, batchStart, single, queried>>
       ELSE /\ uniquePackages' = deduplicatePackages(packages)
            /\ IF UsesBatch(useBatch, OSVQueries(uniquePackages'))
               THEN /\ batchStart' = 1
                    /\ pc' = "o_batch"
                    /\ UNCHANGED <<single, queried>>
               ELSE /\ single' = [k \in 1..Len(uniquePackages') |->
                                     StartSingle(OSVQueries(uniquePackages')[k])]
                    /\ queried' = uniquePackages'
                    /\ pc' = "o_single"
                    /\ UNCHANGED batchStart
    /\ UNCHANGED <<packages, vulnerabilities, cfg, attempt, lastError, useBatch,
                   vulnerabilityIds, uniqueIds, detailStart, detail, chunkLog,
                   settled, snykVars, pureVars, retryHistory>>

\* queryWithBatch: the loop test; either executeBatchQuery sends the request
\* of the next chunk, or fetchVulnerabilityDetails starts
OSVNextBatch ==
    /\ pc = "o_batch"
    /\ IF batchStart <= Len(uniquePackages)
       THEN /\ attempt' = 1
            /\ lastError' = UnknownError
            /\ queried' = queried \o BatchSlice(uniquePackages, batchStart)
            /\ pc' = "o_bfetch"
            /\ UNCHANGED <<uniqueIds, detailStart, detail>>
       ELSE /\ IF Len(vulnerabilityIds) = 0
               THEN /\ pc' = "o_done"
                    /\ UNCHANGED <<uniqueIds, detailStart, detail>>
               ELSE /\ uniqueIds' = DetailIds(vulnerabilityIds)
                    /\ detailStart' = 1
                    /\ detail' = StartDetailChunk(
                                    [k \in 1..Len(uniqueIds') |->
                                        [state |-> "idle", attempt |-> 0]], 1)
                    /\ pc' = "o_detail"
            /\ UNCHANGED <<attempt, lastError, queried>>
    /\ UNCHANGED <<packages, uniquePackages, batchStart, vulnerabilities, cfg,
                   useBatch, vulnerabilityIds, single, chunkLog, settled, snykVars,
                   pureVars,
                   retryHistory>>

\* the batch response is ok: withRetry returns it; response.json() and
\* OSVBatchResponseSchema.parse either throw (caught by queryWithBatch) or
\* yield the identifiers (all those of the database, their first page, or
\* none when the response lists no vulnerability), deduplicated, which are
\* appended; a next_page_token of the response is not read
OSVBatchOk ==
    /\ pc = "o_bfetch"
    /\ \E valid \in BOOLEAN :
       \E response \in
            { [ids |-> <<>>, withheld |-> <<>>],
              [ids |-> BatchResponseIds(BatchSlice(uniquePackages, batchStart)),
               withheld |-> <<>>],
              PagedBatchResponse(BatchSlice(uniquePackages, batchStart)) } :
          /\ ~valid => response.ids = <<>>
          /\ vulnerabilityIds' = IF valid THEN vulnerabilityIds \o NewSet(response.ids)
                                 ELSE vulnerabilityIds
          /\ chunkLog' = Append(chunkLog,
                                [start |-> batchStart, ok |-> valid,
                                 ids |-> response.ids, withheld |-> response.withheld])
          /\ batchStart' = IF valid THEN batchStart + MAX_BATCH_SIZE
                           ELSE AfterFailedChunk(batchStart, Len(uniquePackages))
    /\ pc' = "o_batch"
    /\ UNCHANGED <<packages, uniquePackages, vulnerabilities, cfg, attempt,
                   lastError, useBatch, uniqueIds, detailStart, detail, single,
                   queried, settled, snykVars, pureVars, retryHistory>>

\* an attempt of the batch request fails: catch branch of withRetry, then,
\* when withRetry gives up, the catch of queryWithBatch
OSVBatchFails ==
    /\ pc = "o_bfetch"
    /\ \E e \in RequestFailures("OSV API returned ") :
          /\ IF GivesUp(cfg, attempt, ToError(e))
             THEN /\ chunkLog' = Append(chunkLog,
                                        [start |-> batchStart, ok |-> FALSE,
                                         ids |-> <<>>, withheld |-> <<>>])
                  /\ batchStart' = AfterFailedChunk(batchStart, Len(uniquePackages))
                  /\ pc' = "o_batch"
             ELSE /\ pc' = "o_bsleep"
                  /\ UNCHANGED <<chunkLog, batchStart>>
    /\ UNCHANGED <<packages, uniquePackages, vulnerabilities, cfg, attempt,
                   lastError, useBatch, vulnerabilityIds, uniqueIds,
                   detailStart, detail, single, queried, settled, snykVars, pureVars, retryHistory>>

\* the backoff timer fires: attempt++ and the batch request is sent again
OSVBatchSleepDone ==
    /\ pc = "o_bsleep"
    /\ attempt' = attempt + 1
    /\ pc' = "o_bfetch"
    /\ UNCHANGED <<packages, uniquePackages, batchStart, vulnerabilities, cfg,
                   lastError, osvVars, snykVars, pureVars, retryHistory>>

\* fetchSingleVulnerability: the response is ok and parses
DetailOk ==
    /\ pc = "o_detail"
    /\ \E k \in DOMAIN detail :
          /\ detail[k].state = "fetch"
          /\ detail' = [detail EXCEPT ![k] = [state |-> "ok", attempt |-> 0]]
          /\ settled' = IF Len(settled) = 0 THEN <<k>> ELSE settled
    /\ UNCHANGED <<packages, pc, uniquePackages, batchStart, vulnerabilities,
                   cfg, attempt, lastError, useBatch, vulnerabilityIds,
                   uniqueIds, detailStart, single, chunkLog, queried, snykVars,
                   pureVars,
                   retryHistory>>

\* fetchSingleVulnerability: an attempt fails (the parse is inside the
\* retried operation); withRetry sleeps or gives up, and then null is returned
DetailFails ==
    /\ pc = "o_detail"
    /\ \E k \in DOMAIN detail :
          /\ detail[k].state = "fetch"
          /\ \E givesUp \in { GivesUp(cfg, detail[k].attempt, ToError(e)) :
                                e \in RequestFailures("HTTP ") \cup {ParseFailure} } :
                detail' = [detail EXCEPT ![k] =
                              IF givesUp THEN [state |-> "failed", attempt |-> 0]
                              ELSE [@ EXCEPT !.state = "sleep"]]
          /\ settled' = IF detail'[k].state = "failed" /\ Len(settled) = 0 THEN <<k>>
                         ELSE settled
    /\ UNCHANGED <<packages, pc, uniquePackages, batchStart, vulnerabilities,
                   cfg, attempt, lastError, useBatch, vulnerabilityIds,
                   uniqueIds, detailStart, single, chunkLog, queried, snykVars,
                   pureVars,
                   retryHistory>>

\* fetchSingleVulnerability: the backoff timer fires and the request is sent again
DetailSleepDone ==
    /\ pc = "o_detail"
    /\ \E k \in DOMAIN detail :
          /\ detail[k].state = "sleep"
          /\ detail' = [detail EXCEPT ![k] =
                           [state |-> "fetch", attempt |-> detail[k].attempt + 1]]
    /\ UNCHANGED <<packages, pc, uniquePackages, batchStart, vulnerabilities,
                   cfg, attempt, lastError, useBatch, vulnerabilityIds,
                   uniqueIds, detailStart, single, chunkLog, queried, settled, snykVars,
                   pureVars,
                   retryHistory>>

\* fetchVulnerabilityDetails: Promise.allSettled of the chunk resolves; the
\* records are pushed and the next chunk starts, or the records are returned
DetailChunkSettled ==
    /\ pc = "o_detail"
    /\ \A k \in DetailChunk(detailStart, Len(uniqueIds)) :
          detail[k].state \in {"ok", "failed"}
    /\ vulnerabilities' = vulnerabilities \o ChunkResults(uniqueIds, detail, detailStart)
    /\ detailStart' = DetailChunkEnd(detailStart, Len(uniqueIds)) + 1
    /\ IF detailStart' <= Len(uniqueIds)
       THEN /\ detail' = StartDetailChunk(detail, detailStart')
            /\ UNCHANGED pc
       ELSE /\ pc' = "o_done"
            /\ UNCHANGED detail
    /\ UNCHANGED <<packages, uniquePackages, batchStart, cfg, attempt,
                   lastError, useBatch, vulnerabilityIds, uniqueIds, single,
                   chunkLog, queried, settled, snykVars, pureVars, retryHistory>>

\* querySinglePackage: the response is ok; when it parses, its records are
\* pushed and either the next page is requested or the loop ends; when it
\* does not, the catch block ends the loop
SingleOk ==
    /\ pc = "o_single"
    /\ \E k \in DOMAIN single :
       \E valid \in BOOLEAN :
       \E next \in {Tokens[Len(single[k].pages) + 1], Undefined} :
          /\ single[k].state = "fetch"
          /\ ~valid => next = Undefined
          /\ Len(single[k].pages) + 1 >= MaxPages => next = Undefined
          /\ single' = [single EXCEPT ![k] =
               IF ~valid
               THEN [@ EXCEPT !.state = "done", !.attempt = 0, !.failed = TRUE]
               ELSE LET vulns == PageVulns(@.currentQuery)
                        got == Append(@.pages, [vulns |-> vulns, next_page_token |-> next])
                    IN  IF next # Undefined
                        THEN [@ EXCEPT !.allVulns = @ \o vulns,
                                       !.pages = got,
                                       !.attempt = 1,
                                       !.currentQuery =
                                           NextQuery(OSVQueries(uniquePackages)[k], next),
                                       !.sent = @ \cup
                                           { Request(Len(got),
                                                NextQuery(OSVQueries(uniquePackages)[k], next)) }]
                        ELSE [@ EXCEPT !.allVulns = @ \o vulns,
                                       !.pages = got,
                                       !.attempt = 0,
                                       !.state = "done"]]
          /\ settled' = IF single'[k].state = "done" /\ Len(settled) = 0 THEN <<k>>
                         ELSE settled
    /\ UNCHANGED <<packages, pc, uniquePackages, batchStart, vulnerabilities,
                   cfg, attempt, lastError, useBatch, vulnerabilityIds,
                   uniqueIds, detailStart, detail, chunkLog, queried, snykVars,
                   pureVars,
                   retryHistory>>

\* querySinglePackage: an attempt of the page request fails; withRetry sleeps
\* or gives up, and then the catch block ends the loop
SingleFails ==
    /\ pc = "o_single"
    /\ \E k \in DOMAIN single :
          /\ single[k].state = "fetch"
          /\ \E givesUp \in { GivesUp(cfg, single[k].attempt, ToError(e)) :
                                e \in RequestFailures("HTTP ") } :
                single' = [single EXCEPT ![k] =
                   IF givesUp
                   THEN [@ EXCEPT !.state = "done", !.attempt = 0, !.failed = TRUE]
                   ELSE [@ EXCEPT !.state = "sleep"]]
          /\ settled' = IF single'[k].state = "done" /\ Len(settled) = 0 THEN <<k>>
                         ELSE settled
    /\ UNCHANGED <<packages, pc, uniquePackages, batchStart, vulnerabilities,
                   cfg, attempt, lastError, useBatch, vulnerabilityIds,
                   uniqueIds, detailStart, detail, chunkLog, queried, snykVars,
                   pureVars,
                   retryHistory>>

\* querySinglePackage: the backoff timer fires and the page request is sent again
SingleSleepDone ==
    /\ pc = "o_single"
    /\ \E k \in DOMAIN single :
          /\ single[k].state = "sleep"
          /\ single' = [single EXCEPT ![k] =
               [@ EXCEPT !.state = "fetch", !.attempt = @ + 1,
                         !.sent = @ \cup { Request(Len(single[k].pages),
                                                   single[k].currentQuery) }]]
    /\ UNCHANGED <<packages, pc, uniquePackages, batchStart, vulnerabilities,
                   cfg, attempt, lastError, useBatch, vulnerabilityIds,
                   uniqueIds, detailStart, detail, chunkLog, queried, settled, snykVars,
                   pureVars,
                   retryHistory>>

\* queryIndividually: Promise.allSettled resolves; the records of the
\* fulfilled calls are merged in query order
QueryIndividuallySettled ==
    /\ pc = "o_single"
    /\ \A k \in DOMAIN single : single[k].state = "done"
    /\ vulnerabilities' =
          Flatten([i \in 1..Len(single) |->
                      SingleYield(single[ResultOrder(Len(single), settled)[i]])])
    /\ pc' = "o_done"
    /\ UNCHANGED <<packages, uniquePackages, batchStart, cfg, attempt,
                   lastError, osvVars, snykVars, pureVars, retryHistory>>

NextOSV ==
    \/ OSVQueryVulnerabilities
    \/ OSVNextBatch
    \/ OSVBatchOk
    \/ OSVBatchFails
    \/ OSVBatchSleepDone
    \/ DetailOk
    \/ DetailFails
    \/ DetailSleepDone
    \/ DetailChunkSettled
    \/ SingleOk
    \/ SingleFails
    \/ SingleSleepDone
    \/ QueryIndividuallySettled

SpecOSV == InitOSV /\ [][NextOSV]_vars

\* querySinglePackage where the API does not stop at MaxPages pages: the
\* request of the last page the model counts is answered with a page without
\* records and one more continuation token.  The two tokens alternate, so
\* the call returns to a state it was in; pages, a history, is not extended.
SingleOkMore ==
    /\ pc = "o_single"
    /\ \E k \in DOMAIN single :
          /\ single[k].state = "fetch"
          /\ Len(single[k].pages) + 1 >= MaxPages
          /\ LET next == IF single[k].currentQuery.page_token = Tokens[MaxPages]
                         THEN Tokens[MaxPages + 1] ELSE Tokens[MaxPages]
                 query == NextQuery(OSVQueries(uniquePackages)[k], next)
             IN  single' = [single EXCEPT ![k] =
                     [@ EXCEPT !.attempt = 1,
                               !.currentQuery = query,
                               !.sent = @ \cup { Request(Len(single[k].pages), query) }]]
    /\ UNCHANGED <<packages, pc, uniquePackages, batchStart, vulnerabilities,
                   cfg, attempt, lastError, useBatch, vulnerabilityIds,
                   uniqueIds, detailStart, detail, chunkLog, queried, settled,
                   snykVars, pureVars, retryHistory>>

NextOSVLive == NextOSV \/ SingleOkMore

\* every request is answered or times out and every timer fires: the client
\* as a whole, each querySinglePackage call and each
\* fetchSingleVulnerability call that can take a step eventually takes one
OSVFairness ==
    /\ WF_vars(NextOSVLive)
    /\ \A k \in 1..MaxPkgs :
          WF_vars(NextOSVLive /\ k \in DOMAIN single /\ single'[k] # single[k])
    /\ \A k \in 1..Cardinality(OSVIds) :
          WF_vars(NextOSVLive /\ k \in DOMAIN detail /\ detail'[k] # detail[k])

SpecOSVLive == InitOSV /\ [][NextOSVLive]_vars /\ OSVFairness

----------------------------------------------------------------------------
(* severity.ts: the Snyk classifier and the OSV classifier *)

\* most entries of an OSV severity array
MaxSeverityEntries == 2

\* a score is held in hundredths: 6.99 is 699
ScoreScale == 10 * 10

\* SECURITY.CVSS_FATAL_THRESHOLD: 7.0
CVSS_FATAL_THRESHOLD == 7 * ScoreScale

\* SECURITY.FATAL_SEVERITIES
FATAL_SEVERITIES == <<"CRITICAL", "HIGH">>

\* the numbers a score may state: -1.0, 0.0, 6.99, 7.0, 10.0, 11.0
Scores ==
    { -ScoreScale, 0, CVSS_FATAL_THRESHOLD - 1, CVSS_FATAL_THRESHOLD,
      10 * ScoreScale, 11 * ScoreScale }

\* an optional number: <<>> when absent (undefined, null, NaN), else <<n>>
OptionalScores == { <<>> } \cup { <<n>> : n \in Scores }

\* SnykSeverity | undefined
SnykSeverities == {"critical", "high", "medium", "low", Undefined}

\* database_specific.severity of an OSV record
DatabaseSeverities == {"CRITICAL", "HIGH", "MODERATE", "LOW", "high", Undefined}

\* a score string of an OSV severity entry: vector, whether it contains
\* "CVSS:" (a vector such as CVSS:3.1/AV:N/.../A:H, a score possibly
\* appended after a slash); trailing, the signed number the string consists
\* of or ends with, <<>> when it does not end with a number
ScoreStrings == [vector : BOOLEAN, trailing : OptionalScores]

\* entries of an OSV severity array
SeverityEntries == [type : {"CVSS_V3", "EPSS"}, score : ScoreStrings]

Abs(n) == IF n < 0 THEN -n ELSE n

\* isFatalSeverity of the Snyk classifier
isFatalSeverity(severity) == severity = "critical" \/ severity = "high"

\* mapSeverityToLevel of the Snyk classifier
mapSeverityToLevel(v) ==
    IF /\ v.cvssScore # <<>>
       /\ v.cvssScore[1] >= CVSS_FATAL_THRESHOLD
       /\ v.cvssScore[1] <= 10 * ScoreScale
    THEN "fatal"
    ELSE IF /\ v.cvssScore # <<>>
            /\ v.cvssScore[1] >= 0
            /\ v.cvssScore[1] < CVSS_FATAL_THRESHOLD
    THEN "warn"
    ELSE IF v.vendorSeverity # Undefined
    THEN (IF isFatalSeverity(v.vendorSeverity) THEN "fatal" ELSE "warn")
    ELSE "warn"

\* isFatalSeverity of the OSV classifier: SECURITY.FATAL_SEVERITIES.includes
OSVIsFatalSeverity(severity) ==
    \E i \in 1..Len(FATAL_SEVERITIES) : FATAL_SEVERITIES[i] = severity

\* parseCVSSScore: in a string that contains "CVSS:" the regular expressions
\* capture the digits at its end, without a sign, and the number is returned
\* as it is; any other string goes through parseFloat and the range test
parseCVSSScore(scoreString) ==
    IF scoreString.vector /\ scoreString.trailing # <<>>
    THEN << Abs(scoreString.trailing[1]) >>
    ELSE IF /\ ~scoreString.vector
            /\ scoreString.trailing # <<>>
            /\ scoreString.trailing[1] >= 0
            /\ scoreString.trailing[1] <= 10 * ScoreScale
    THEN scoreString.trailing
    ELSE <<>>

\* extractHighestCVSSScore
extractHighestCVSSScore(severities) ==
    LET highestScore[i \in 0..Len(severities)] ==
            IF i = 0 THEN <<>>
            ELSE IF severities[i].type # "CVSS_V3" THEN highestScore[i - 1]
            ELSE LET score == parseCVSSScore(severities[i].score)
                 IN  IF score # <<>> /\ (highestScore[i - 1] = <<>>
                                         \/ score[1] > highestScore[i - 1][1])
                     THEN score
                     ELSE highestScore[i - 1]
    IN  highestScore[Len(severities)]

\* mapSeverityToLevel of the OSV classifier
OSVMapSeverityToLevel(v) ==
    IF v.vendorSeverity # Undefined /\ OSVIsFatalSeverity(v.vendorSeverity)
    THEN "fatal"
    ELSE LET cvssScore == extractHighestCVSSScore(v.severity)
         IN  IF cvssScore # <<>> /\ cvssScore[1] >= CVSS_FATAL_THRESHOLD
             THEN "fatal"
             ELSE "warn"

\* the vulnerability records handed to the Snyk classifier
SnykVulnerabilities ==
    [source : {"snyk"}, vendorSeverity : SnykSeverities,
     cvssScore : OptionalScores, severity : { <<>> }]

\* the vulnerability records handed to the OSV classifier
OSVVulnerabilities ==
    [source : {"osv"}, vendorSeverity : DatabaseSeverities,
     cvssScore : { <<>> }, severity : SeqsUpTo(SeverityEntries, MaxSeverityEntries)]

\* a vulnerability record is about to be classified
InitSeverity ==
    /\ ScanIdle
    /\ cfg = DEFAULT_RETRY_CONFIG
    /\ attempt = 0
    /\ lastError = NoError
    /\ sleeps = <<>>
    /\ RetryIdle
    /\ pc = "s_start"
    /\ vulnerability \in SnykVulnerabilities \cup OSVVulnerabilities
    /\ level = Undefined
    /\ SemverIdle
    /\ AdvisoryIdle

\* the Snyk processor calls mapSeverityToLevel(vulnerability)
SnykMapSeverity ==
    /\ pc = "s_start"
    /\ vulnerability.source = "snyk"
    /\ level' = mapSeverityToLevel(vulnerability)
    /\ pc' = "s_done"
    /\ UNCHANGED <<scanVars, cfg, attempt, lastError, sleeps, retryHistory,
                   vulnerability, semverVars, advisoryVars>>

\* the OSV processor calls mapSeverityToLevel(vulnerability)
OSVMapSeverity ==
    /\ pc = "s_start"
    /\ vulnerability.source = "osv"
    /\ level' = OSVMapSeverityToLevel(vulnerability)
    /\ pc' = "s_done"
    /\ UNCHANGED <<scanVars, cfg, attempt, lastError, sleeps, retryHistory,
                   vulnerability, semverVars, advisoryVars>>

NextSeverity == SnykMapSeverity \/ OSVMapSeverity

SpecSeverity == InitSeverity /\ [][NextSeverity]_vars

----------------------------------------------------------------------------
(* semver.ts: isPackageAffected.  A version string is the sequence of its  *)
(* numbers: "1.1.0" is <<1, 1, 0>> and "0" is <<0>>.  The versions are     *)
(* release versions (no prerelease tag, no build metadata).                *)

\* number of versions the packages and the events are drawn from
MaxVersions == 3

\* most windows of one range
MaxWindows == 2

\* most ranges of one affected entry
MaxRanges == 2

\* 1.0.0, 1.1.0, 2.0.0, 2.1.0, ...
SemverVersions == { <<(n + 1) \div 2, (n + 1) % 2, 0>> : n \in 1..MaxVersions }

\* Bun.semver's order of release versions: numeric, component by component
VersionLess(a, b) ==
    \E i \in 1..3 : a[i] < b[i] /\ \A j \in 1..(i - 1) : a[j] = b[j]

\* one event of a range; a field that is not set is <<>>
Event(introduced, fixed, last_affected) ==
    [introduced |-> introduced, fixed |-> fixed, last_affected |-> last_affected]

Introduced(v) == Event(<<v>>, <<>>, <<>>)

Fixed(v) == Event(<<>>, <<v>>, <<>>)

LastAffected(v) == Event(<<>>, <<>>, <<v>>)

SemverEvents ==
    { Introduced(v) : v \in SemverVersions \cup { <<0>> } }
        \cup { Fixed(v) : v \in SemverVersions }
        \cup { LastAffected(v) : v \in SemverVersions }

\* variant: the fixed version is still affected
FixedExpression_inclusive(v) == [op |-> "<=", version |-> v]

\* rangeExpressions.push(`<${event.fixed}`)
FixedExpression(v) == [op |-> "<", version |-> v]

\* the body of the loop over range.events: "*" or `>=${event.introduced}`,
\* then `<${event.fixed}`, then `<=${event.last_affected}`
EventExpressions(event) ==
    (IF event.introduced = <<>> THEN <<>>
     ELSE IF event.introduced[1] = <<0>> THEN << [op |-> "*", version |-> <<0>>] >>
     ELSE << [op |-> ">=", version |-> event.introduced[1]] >>)
    \o (IF event.fixed # <<>> THEN << FixedExpression(event.fixed[1]) >> ELSE <<>>)
    \o (IF event.last_affected # <<>>
        THEN << [op |-> "<=", version |-> event.last_affected[1]] >> ELSE <<>>)

\* one comparator of a range string, applied to a version
Compares(version, comparator) ==
    CASE comparator.op = "*"  -> TRUE
      [] comparator.op = ">=" -> ~VersionLess(version, comparator.version)
      [] comparator.op = "<"  -> VersionLess(version, comparator.version)
      [] comparator.op = "<=" -> ~VersionLess(comparator.version, version)

\* variant: one comparator of the range string is enough
satisfies_any(version, expressions) ==
    \E i \in 1..Len(expressions) : Compares(version, expressions[i])

\* Bun.semver.satisfies(version, rangeExpressions.join(" ")): comparators
\* separated by spaces are a conjunction
satisfies(version, expressions) ==
    \A i \in 1..Len(expressions) : Compares(version, expressions[i])

isVersionInSemverRange(version, range) ==
    LET rangeExpressions ==
            Flatten([i \in 1..Len(range.events) |-> EventExpressions(range.events[i])])
    IN  IF Len(rangeExpressions) = 0 THEN FALSE
        ELSE satisfies(version, rangeExpressions)

\* variant: the kind of the range is not looked at
isVersionInRange_anyType(version, range) ==
    IF Len(range.events) = 0 THEN FALSE ELSE isVersionInSemverRange(version, range)

isVersionInRange(version, range) ==
    IF Len(range.events) = 0 THEN FALSE
    ELSE IF range.type = "SEMVER" THEN isVersionInSemverRange(version, range)
    ELSE FALSE

isPackageAffected(pkg, affected) ==
    IF affected.package.name # pkg.name THEN FALSE
    ELSE IF \E i \in 1..Len(affected.versions) : affected.versions[i] = pkg.version
    THEN TRUE
    ELSE \E i \in 1..Len(affected.ranges) :
            isVersionInRange(pkg.version, affected.ranges[i])

\* the event lists [introduced "0", fixed b]
Windows == { <<Introduced(<<0>>), Fixed(b)>> : b \in SemverVersions }

\* affected entries of lodash with an explicit version list and ranges of
\* either kind, each range one window or without events
EntryInputs ==
    [package  : { [name |-> "lodash"] },
     versions : SeqsUpTo(SemverVersions, 1),
     ranges   : SeqsUpTo([type   : {"SEMVER", "ECOSYSTEM"},
                          events : Windows \cup { <<>> }], MaxRanges)]

\* what a range states about one window: a single event, or an introduced
\* event followed by a fixed or a last_affected event, of any versions
WindowEvents ==
    { <<e>> : e \in SemverEvents }
        \cup { <<Introduced(a), upper>> :
                 a \in SemverVersions \cup { <<0>> },
                 upper \in { Fixed(b) : b \in SemverVersions }
                              \cup { LastAffected(b) : b \in SemverVersions } }

\* affected entries of lodash with one SEMVER range of up to MaxWindows
\* windows
RangeInputs ==
    [package  : { [name |-> "lodash"] },
     versions : { <<>> },
     ranges   : { << [type |-> "SEMVER", events |-> Flatten(windows)] >> :
                    windows \in SeqsUpTo(WindowEvents, MaxWindows) }]

\* isPackageAffected(pkg, affected) is about to be called
InitSemver ==
    /\ ScanIdle
    /\ cfg = DEFAULT_RETRY_CONFIG
    /\ attempt = 0
    /\ lastError = NoError
    /\ sleeps = <<>>
    /\ RetryIdle
    /\ SeverityIdle
    /\ AdvisoryIdle
    /\ pc = "m_start"
    /\ \/ /\ semverAffected \in EntryInputs
          /\ semverPkg \in [name : {"lodash", "express"}, version : SemverVersions]
       \/ /\ semverAffected \in RangeInputs
          /\ semverPkg \in [name : {"lodash"}, version : SemverVersions]
    /\ semverResult = <<>>

IsPackageAffected ==
    /\ pc = "m_start"
    /\ semverResult' = << isPackageAffected(semverPkg, semverAffected) >>
    /\ pc' = "m_done"
    /\ UNCHANGED <<scanVars, cfg, attempt, lastError, sleeps, retryHistory,
                   severityVars, advisoryVars, semverPkg, semverAffected>>

SpecSemver == InitSemver /\ [][IsPackageAffected]_vars

----------------------------------------------------------------------------
(* client.ts (SnykClient) and processor.ts: url and description of an      *)
(* advisory.  A string is the sequence of its characters; a string that is *)
(* undefined or null is <<>>, a string s that is set is <<s>>.             *)

\* most references of one issue
MaxRefs == 2

\* text lengths are drawn from 0..MaxExtra and from within MaxExtra of
\* MAX_DESCRIPTION_LENGTH
MaxExtra == 1

MAX_DESCRIPTION_LENGTH == 200

\* n times the character ch
Repeat(ch, n) == [i \in 1..n |-> ch]

\* String.prototype.trim for strings whose only white space is " "
Trim(s) ==
    LET inked == { i \in 1..Len(s) : s[i] # " " }
    IN  IF inked = {} THEN <<>>
        ELSE SubSeq(s, CHOOSE i \in inked : \A j \in inked : i <= j,
                       CHOOSE i \in inked : \A j \in inked : i >= j)

\* desc.match(/^[^.!?]*[.!?]/)?.[0]: up to the first terminator, or no match
FirstSentence(s) ==
    LET ends == { i \in 1..Len(s) : s[i] \in {".", "!", "?"} }
    IN  IF ends = {} THEN <<>>
        ELSE << SubSeq(s, 1, CHOOSE i \in ends : \A j \in ends : i <= j) >>

\* VulnerabilityProcessor.getVulnerabilityDescription
getVulnerabilityDescription(vuln) ==
    IF vuln.description # <<>> /\ Trim(vuln.description[1]) # <<>>
    THEN LET desc == Trim(vuln.description[1])
             firstSentence == FirstSentence(desc)
         IN  IF Len(desc) > MAX_DESCRIPTION_LENGTH
             THEN IF firstSentence # <<>>
                     /\ Len(firstSentence[1]) <= MAX_DESCRIPTION_LENGTH
                  THEN firstSentence
                  ELSE << SubSeq(desc, 1, MAX_DESCRIPTION_LENGTH - 3)
                             \o <<".", ".", ".">> >>
             ELSE << desc >>
    ELSE IF vuln.title # <<>> /\ Trim(vuln.title[1]) # <<>>
    THEN << Trim(vuln.title[1]) >>
    ELSE <<>>

\* SnykClient.convertIssuesToVulnerabilities, for one issue: title,
\* description and url of the vulnerability object
IssueToVulnerability(attrs) ==
    [title       |-> attrs.title,
     description |-> IF attrs.description # <<>> /\ attrs.description[1] # <<>>
                     THEN attrs.description ELSE attrs.title,
     url         |-> IF Len(attrs.references) > 0
                     THEN << attrs.references[1].url >> ELSE <<>>]

\* VulnerabilityProcessor.createAdvisory: url and description
AdvisoryOf(vuln) ==
    [url         |-> IF vuln.url # <<>> /\ vuln.url[1] # <<>> THEN vuln.url ELSE <<>>,
     description |-> getVulnerabilityDescription(vuln)]

\* references of an issue: a kind and a url, the url by its host
References ==
    [type : {"ADVISORY", "WEB"},
     url  : { <<"https://", host, "/1">> :
                host \in {"github.com/advisories", "cve.mitre.org", "example.com"} }]

TextLengths ==
    (0..MaxExtra)
        \cup ((MAX_DESCRIPTION_LENGTH - MaxExtra)..(MAX_DESCRIPTION_LENGTH + MaxExtra))

\* descriptions: white space, a run of n letters, possibly the end of a
\* sentence, and a run of m letters
Descriptions ==
    { <<>> } \cup
    { << Repeat(" ", lead) \o Repeat("a", n) \o term \o Repeat("b", m) >> :
        lead \in 0..1, n \in TextLengths, term \in { <<>>, <<".">> }, m \in TextLengths }

Titles == { <<>> } \cup { << Repeat("t", n) >> : n \in TextLengths }

\* attributes of an issue: every text without references, and every list of
\* references under one text
IssueInputs ==
    [title : Titles, description : Descriptions, references : { <<>> }]
        \cup [title : { <<Repeat("t", 1)>> }, description : { <<>> },
              references : SeqsUpTo(References, MaxRefs)]

\* an issue of a Snyk response is about to be converted
InitAdvisory ==
    /\ ScanIdle
    /\ cfg = DEFAULT_RETRY_CONFIG
    /\ attempt = 0
    /\ lastError = NoError
    /\ sleeps = <<>>
    /\ RetryIdle
    /\ SeverityIdle
    /\ SemverIdle
    /\ pc = "a_start"
    /\ issueAttrs \in IssueInputs
    /\ snykVuln = [title |-> <<>>, description |-> <<>>, url |-> <<>>]
    /\ advisory = [url |-> <<>>, description |-> <<>>]

\* convertIssuesToVulnerabilities makes the vulnerability object
ConvertIssue ==
    /\ pc = "a_start"
    /\ snykVuln' = IssueToVulnerability(issueAttrs)
    /\ pc' = "a_converted"
    /\ UNCHANGED <<scanVars, cfg, attempt, lastError, sleeps, retryHistory,
                   severityVars, semverVars, issueAttrs, advisory>>

\* createAdvisory makes the advisory of the vulnerability object
CreateAdvisory ==
    /\ pc = "a_converted"
    /\ advisory' = AdvisoryOf(snykVuln)
    /\ pc' = "a_done"
    /\ UNCHANGED <<scanVars, cfg, attempt, lastError, sleeps, retryHistory,
                   severityVars, semverVars, issueAttrs, snykVuln>>

SpecAdvisory == InitAdvisory /\ [][ConvertIssue \/ CreateAdvisory]_vars

----------------------------------------------------------------------------
(* Properties of scanner.scan, checked under Spec *)

Advisories == scanResult.advisories

PackageNames == { p.name : p \in PackageUniverse }

\* C1: when queryVulnerabilities or processVulnerabilities raises an
\* exception that is not a SnykPermissionError, the exception is caught by
\* scan, which resolves to the empty advisory list and does not reject.
C1_FailOpen ==
    (pc = "done" /\ caughtKind \in {"Error", "nonError"})
        => /\ scanResult.status = "resolved"
           /\ scanResult.advisories = <<>>
           /\ scanResult.error = NoError

\* processVulnerabilities threw a non-Error value although the client had
\* returned vulnerabilities, and the scan resolved to []
C1_Witness ==
    /\ pc = "done"
    /\ caughtKind = "nonError"
    /\ Len(vulnerabilities) > 0
    /\ scanResult.status = "resolved"
    /\ scanResult.advisories = <<>>

\* C2: if a batch request was answered with 403, scan ends rejected, by a
\* SnykPermissionError, and no batch after the denied one was requested.
C2_PermissionDeniedAborts ==
    (pc = "done" /\ 403 \in authAnswers)
        => /\ scanResult.status = "rejected"
           /\ caughtKind = "SnykPermissionError"
           /\ batchStart = batchOf403

C4_MissingCredentialsReject ==
    (pc = "done" /\ (~env.token \/ ~env.orgId))
        => /\ scanResult.status = "rejected"
           /\ scanResult.error # NoError
           /\ requestCount = 0

\* C5: when the pipeline completes, an advisory for vulnerability v names
\* package n if and only if the list contains a package named n for which
\* the source reported v.
C5_AdvisoryNamesAffectedPackage ==
    (pc = "done" /\ caughtKind = "none")
        => \A v \in VulnIds, n \in PackageNames :
              (\E i \in 1..Len(Advisories) :
                    Advisories[i].id = v /\ Advisories[i].package = n)
              <=>
              (\E j \in 1..Len(allIssues), k \in 1..Len(packages) :
                    /\ allIssues[j].id = v
                    /\ allIssues[j].affects = packages[k]
                    /\ packages[k].name = n)

\* C6: the advisory list holds at most one advisory per (vulnerability id,
\* package name, package version).
C6_OneAdvisoryPerTriple ==
    pc = "done"
        => \A i, j \in 1..Len(Advisories) :
              (/\ Advisories[i].id = Advisories[j].id
               /\ Advisories[i].package = Advisories[j].package
               /\ Advisories[i].version = Advisories[j].version) => i = j

\* C10: a response with status 400, 401, 403 or 404 is never followed by a
\* backoff sleep and another request for the same batch.
C10_ClientErrorsNotRetried ==
    pc = "sleep" => lastStatus \notin {400, 401, 403, 404}

\* withRetry has just given up on a batch whose latest attempt failed with a
\* 5xx or 429 answer, a timeout or a connection failure
GaveUpOnTransient ==
    /\ pc = "batch"
    /\ \/ lastStatus \in {429, 500}
       \/ (lastStatus = 0 /\ lastError \in FetchFailures)

\* C11: under the default policy a failure caused by a 5xx or 429 answer, a
\* timeout or a network-level error is retried whatever else its message
\* carries: the batch is given up only after maxAttempts attempts.
C11_TransientAlwaysRetried ==
    GaveUpOnTransient => attempt = cfg.maxAttempts

----------------------------------------------------------------------------
(* Properties of withRetry, checked under SpecRetry *)

Invocations == Len(outcomes)

\* the first invocation at which the operation would return, 0 if none
FirstSuccess ==
    IF \E k \in 1..Len(plan) : plan[k].ok
    THEN CHOOSE k \in 1..Len(plan) : plan[k].ok /\ \A j \in 1..(k - 1) : ~plan[j].ok
    ELSE 0

\* C7: the operation is invoked at most maxAttempts times; and if it first
\* returns at invocation k <= maxAttempts and shouldRetry accepts every
\* earlier failure, withRetry ends after exactly k invocations, returning
\* the value of invocation k.
C7_BoundedAttempts ==
    /\ Invocations <= cfg.maxAttempts
    /\ (/\ pc = "r_done"
        /\ FirstSuccess \in 1..cfg.maxAttempts
        /\ \A j \in 1..(FirstSuccess - 1) : ShouldRetry(cfg, ToError(plan[j].value)))
           => /\ Invocations = FirstSuccess
              /\ retryResult = [status |-> "returned", value |-> plan[FirstSuccess].value]

\* the operation failed twice, then returned, with maxAttempts = 3
C7_Witness ==
    /\ pc = "r_done"
    /\ cfg.maxAttempts = 3
    /\ FirstSuccess = 3
    /\ Invocations = 3
    /\ retryResult.status = "returned"

\* withRetry has thrown after its last invocation failed
Propagated == pc = "r_done" /\ retryResult.status = "thrown"

\* the latest invocation failed on attempt maxAttempts or with an error that
\* shouldRetry rejects
FinalFailure ==
    /\ Invocations > 0
    /\ ~outcomes[Invocations].ok
    /\ \/ Invocations = cfg.maxAttempts
       \/ ~ShouldRetry(cfg, ToError(outcomes[Invocations].value))

\* an error propagates exactly when the latest invocation was a final
\* failure, and no sleep follows that invocation
PropagatesExactlyOnFinalFailure ==
    /\ Propagated <=> (pc # "r_op" /\ FinalFailure)
    /\ Propagated => Len(sleeps) = Invocations - 1
    /\ (pc = "r_sleep") => (Invocations > 0 /\ ~outcomes[Invocations].ok /\ ~FinalFailure)

\* C8 as stated: an error propagates exactly on a final failure, no
\* invocation or sleep follows it, and the error propagated is the very
\* value the latest invocation threw.
C8_PropagatesRaisedValue ==
    /\ PropagatesExactlyOnFinalFailure
    /\ Propagated => retryResult.value = outcomes[Invocations].value

\* C8 amended: as above, but the error propagated is the value the latest
\* invocation threw when that value is an Error, and otherwise a new Error
\* whose message is the string form of the value.
C8_PropagatesLatestError ==
    /\ PropagatesExactlyOnFinalFailure
    /\ Propagated =>
          IF outcomes[Invocations].value.kind = "nonError"
          THEN retryResult.value = Err("Error", outcomes[Invocations].value.message)
          ELSE retryResult.value = outcomes[Invocations].value

\* shouldRetry rejected the error of the second attempt, before maxAttempts
\* was reached, and that error propagated
C8_Witness ==
    /\ Propagated
    /\ Invocations = 2
    /\ cfg.maxAttempts = 3
    /\ retryResult.value = outcomes[2].value
    /\ retryResult.value # ToError(outcomes[1].value)

\* C9: the k-th sleep of a call lasts delayMs * 1.5^(k-1); for delayMs > 0
\* each sleep is 1.5 times the one before, hence longer; and invocation k+1
\* starts no earlier than that delay after invocation k failed.
C9_ExponentialBackoff ==
    /\ \A k \in 1..Len(sleeps) :
          /\ sleeps[k] * Pow(2, k - 1) = cfg.delayMs * TimeScale * Pow(3, k - 1)
          /\ (k > 1 /\ cfg.delayMs > 0)
                => (2 * sleeps[k] = 3 * sleeps[k - 1] /\ sleeps[k] > sleeps[k - 1])
    /\ \A k \in 1..(Len(starts) - 1) :
          starts[k + 1] >= outcomes[k].at + sleeps[k]

\* two sleeps with a positive base delay were followed by a third invocation
C9_Witness ==
    /\ cfg.delayMs > 0
    /\ Len(sleeps) = 2
    /\ Len(starts) = 3
    /\ sleeps[2] > sleeps[1]

----------------------------------------------------------------------------
(* Properties of OSVClient.queryVulnerabilities, checked under SpecOSV *)

\* the batch strategy was chosen and its loop over the chunks has ended
BatchLoopOver ==
    /\ pc \in {"o_detail", "o_done"}
    /\ Len(packages) > 0
    /\ UsesBatch(useBatch, OSVQueries(uniquePackages))

\* the individual strategy was chosen and has returned
IndividualOver ==
    /\ pc = "o_done"
    /\ Len(packages) > 0
    /\ ~UsesBatch(useBatch, OSVQueries(uniquePackages))

NumChunks == (Len(uniquePackages) + MAX_BATCH_SIZE - 1) \div MAX_BATCH_SIZE

Returned(id) == \E i \in 1..Len(vulnerabilities) : vulnerabilities[i] = DetailRecord(id)

\* number of fetchSingleVulnerability calls started for an identifier
DetailCalls(id) ==
    Cardinality({ k \in DOMAIN detail : uniqueIds[k] = id /\ detail[k].state # "idle" })

\* C12: in the batch strategy every chunk is requested, whether or not an
\* earlier chunk failed or could not be parsed; and once the call has
\* returned, every identifier of a successful chunk has had its detail
\* fetched, and its record is in the result when that fetch succeeded.
C12_ChunkFailureIsolated ==
    /\ BatchLoopOver =>
          /\ Len(chunkLog) = NumChunks
          /\ \A j \in 1..Len(chunkLog) :
                chunkLog[j].start = 1 + (j - 1) * MAX_BATCH_SIZE
    /\ (BatchLoopOver /\ pc = "o_done") =>
          \A j \in 1..Len(chunkLog) : \A i \in 1..Len(chunkLog[j].ids) :
             chunkLog[j].ok =>
                \E k \in DOMAIN detail :
                   /\ uniqueIds[k] = chunkLog[j].ids[i]
                   /\ detail[k].state \in {"ok", "failed"}
                   /\ detail[k].state = "ok" => Returned(uniqueIds[k])

\* the first chunk failed, the second was requested and answered, and a
\* record of one of its identifiers was returned
C12_Witness ==
    /\ BatchLoopOver
    /\ pc = "o_done"
    /\ Len(chunkLog) = 2
    /\ ~chunkLog[1].ok
    /\ chunkLog[2].ok
    /\ Len(chunkLog[2].ids) > 0
    /\ Returned(chunkLog[2].ids[1])

\* C13: a detail fetch is started at most once per identifier; once the call
\* has returned, exactly once for each identifier collected, whatever the
\* other fetches did; and the result holds exactly the records whose fetch
\* succeeded, each once.
C13_DetailFetchIsolated ==
    /\ \A id \in OSVIds : DetailCalls(id) <= 1
    /\ (BatchLoopOver /\ pc = "o_done") =>
          /\ \A id \in OSVIds :
                /\ DetailCalls(id) =
                      IF \E i \in 1..Len(vulnerabilityIds) : vulnerabilityIds[i] = id
                      THEN 1 ELSE 0
                /\ Returned(id) <=>
                      \E k \in DOMAIN detail : uniqueIds[k] = id /\ detail[k].state = "ok"
          /\ Len(vulnerabilities) =
                Cardinality({ k \in DOMAIN detail : detail[k].state = "ok" })

\* an identifier was collected from two chunks, one fetch failed, another
\* succeeded and its record was returned
C13_Witness ==
    /\ BatchLoopOver
    /\ pc = "o_done"
    /\ Len(vulnerabilityIds) > Len(uniqueIds)
    /\ \E k \in DOMAIN detail : detail[k].state = "failed"
    /\ \E k \in DOMAIN detail : detail[k].state = "ok" /\ Returned(uniqueIds[k])

\* C14: at most MAX_CONCURRENT_DETAILS detail fetches are in flight, a fetch
\* counting from its start until it settles, retries and backoff sleeps
\* included.
C14_DetailConcurrencyBound == InFlight <= MAX_CONCURRENT_DETAILS

\* MAX_CONCURRENT_DETAILS fetches are in flight, one of them in a backoff
\* sleep, while another identifier waits for the next chunk
C14_Witness ==
    /\ InFlight = MAX_CONCURRENT_DETAILS
    /\ \E k \in DOMAIN detail : detail[k].state = "sleep"
    /\ \E k \in DOMAIN detail : detail[k].state = "idle"

\* the token a request for page n of a call must carry
TokenFor(proc, n) ==
    IF n = 1 THEN Undefined ELSE proc.pages[n - 1].next_page_token

\* C15: in each querySinglePackage call, a request for page n+1 is sent only
\* when response n has been received, and it carries the original query with
\* the continuation token of response n; pages are requested one after
\* another until the first response without a token; and the records held
\* are those of the pages received, in page order.
C15_PagesInOrder ==
    \A k \in DOMAIN single :
       LET proc  == single[k]
           query == OSVQueries(uniquePackages)[k]
           open  == proc.state # "done" \/ proc.failed
       IN  /\ \A r \in proc.sent :
                /\ r.page <= Len(proc.pages) + 1
                /\ r.body = [query EXCEPT !.page_token = TokenFor(proc, r.page)]
           /\ { r.page : r \in proc.sent }
                 = 1..(Len(proc.pages) + (IF open THEN 1 ELSE 0))
           /\ \A n \in 1..Len(proc.pages) :
                 (proc.pages[n].next_page_token = Undefined)
                    <=> (n = Len(proc.pages) /\ ~open)
           /\ proc.allVulns = Flatten([n \in 1..Len(proc.pages) |-> proc.pages[n].vulns])

\* a call received two pages, the second requested with the token of the
\* first, and ended at the response without a token
C15_Witness ==
    \E k \in DOMAIN single :
       /\ single[k].state = "done"
       /\ ~single[k].failed
       /\ Len(single[k].pages) = 2
       /\ Request(1, [OSVQueries(uniquePackages)[k] EXCEPT !.page_token = Tokens[1]])
             \in single[k].sent
       /\ Len(single[k].allVulns) = 2

\* the records of the pages a call received
PagesReceived(proc) == Flatten([n \in 1..Len(proc.pages) |-> proc.pages[n].vulns])

\* C16: a call whose page request failed has ended and holds the records of
\* the pages before it; and when the individual strategy returns, the result
\* is the records of the pages each call received, merged in query order,
\* those of a failed call included.
C16_PageFailureIsolated ==
    /\ \A k \in DOMAIN single :
          single[k].failed =>
             (single[k].state = "done" /\ single[k].allVulns = PagesReceived(single[k]))
    /\ IndividualOver =>
          /\ Len(single) = Len(uniquePackages)
          /\ vulnerabilities =
                Flatten([k \in 1..Len(single) |-> PagesReceived(single[k])])

\* one call failed at its second page, another call completed, and the
\* result holds the first page of the one and the pages of the other
C16_Witness ==
    /\ IndividualOver
    /\ \E k, m \in DOMAIN single :
          /\ single[k].failed
          /\ Len(single[k].pages) = 1
          /\ ~single[m].failed
          /\ Len(single[m].pages) > 0
          /\ Len(vulnerabilities) >= 1 + Len(single[m].pages)

\* position of the first occurrence of a package in the input
FirstIndex(pkg) ==
    CHOOSE i \in 1..Len(packages) :
       packages[i] = pkg /\ \A j \in 1..(i - 1) : packages[j] # pkg

Elements(s) == { s[i] : i \in 1..Len(s) }

\* C17: no name@version key is queried twice; the packages are queried in
\* the order of their first occurrence in the input, none being passed
\* over; and when the querying is over every package of the input has been
\* queried.
C17_EachKeyQueriedOnce ==
    /\ \A i, j \in 1..Len(queried) : Key(queried[i]) = Key(queried[j]) => i = j
    /\ Elements(queried) \subseteq Elements(packages)
    /\ \A i, j \in 1..Len(queried) :
          i < j => FirstIndex(queried[i]) < FirstIndex(queried[j])
    /\ \A i \in 1..Len(queried) : \A pkg \in Elements(packages) :
          FirstIndex(pkg) < FirstIndex(queried[i]) => pkg \in Elements(queried)
    /\ pc \in {"o_detail", "o_single", "o_done"} => Elements(queried) = Elements(packages)

\* a list that names a package twice around another one was queried with
\* two queries
C17_Witness ==
    /\ pc = "o_done"
    /\ Len(packages) = 3
    /\ packages[1] = packages[3]
    /\ packages[1] # packages[2]
    /\ queried = <<packages[1], packages[2]>>

----------------------------------------------------------------------------
(* Properties of the classifiers, checked under SpecSeverity *)

Classified == pc = "s_done"

\* the vendor severity of a record is one of the fatal labels of its source
FatalLabel(v) ==
    IF v.source = "snyk"
    THEN v.vendorSeverity \in {"critical", "high"}
    ELSE v.vendorSeverity \in {"CRITICAL", "HIGH"}

InRange(n) == n >= 0 /\ n <= 10 * ScoreScale

\* the numbers the CVSS scores of a record state
StatedScores(v) ==
    { v.cvssScore[i] : i \in 1..Len(v.cvssScore) }
    \cup { v.severity[i].score.trailing[1] :
              i \in { j \in 1..Len(v.severity) :
                         /\ v.severity[j].type = "CVSS_V3"
                         /\ v.severity[j].score.trailing # <<>> } }

ValidScores(v) == { n \in StatedScores(v) : InRange(n) }

\* C18: a record whose vendor severity is a fatal label is classified fatal,
\* whatever CVSS score it carries.
C18_FatalLabelWins ==
    (Classified /\ FatalLabel(vulnerability)) => level = "fatal"

\* C19: when no fatal vendor label applies and the record states a valid
\* CVSS score, the record is fatal if and only if its highest valid score is
\* at least 7.0.
C19_SeverityBoundary ==
    (Classified /\ ~FatalLabel(vulnerability) /\ ValidScores(vulnerability) # {})
        => (level = "fatal"
               <=> \E n \in ValidScores(vulnerability) : n >= CVSS_FATAL_THRESHOLD)

\* a CVSS entry whose score string states a number outside [0,10]
OutOfRangeEntry(e) ==
    /\ e.type = "CVSS_V3"
    /\ e.score.trailing # <<>>
    /\ ~InRange(e.score.trailing[1])

\* the record without its CVSS scores outside [0,10]
WithoutInvalidScores(v) ==
    [v EXCEPT !.cvssScore = IF @ # <<>> /\ ~InRange(@[1]) THEN <<>> ELSE @,
              !.severity  = SelectSeq(@, LAMBDA e : ~OutOfRangeEntry(e))]

Classify(v) ==
    IF v.source = "snyk" THEN mapSeverityToLevel(v) ELSE OSVMapSeverityToLevel(v)

\* C20: a record is classified as the same record without its CVSS scores
\* outside [0,10] is: such a score counts as absent in either format.
C20_OutOfRangeScoreAbsent ==
    Classified => level = Classify(WithoutInvalidScores(vulnerability))

----------------------------------------------------------------------------
(* Properties of isPackageAffected, checked under SpecSemver *)

\* isPackageAffected has returned
Matched == pc = "m_done"

\* a version as one number (the parts of the model's versions are below 100)
VersionNumber(v) == IF Len(v) = 1 THEN v[1] * 10000 ELSE v[1] * 10000 + v[2] * 100 + v[3]

InExplicitVersions ==
    \E i \in 1..Len(semverAffected.versions) :
        semverAffected.versions[i] = semverPkg.version

SomeSemverRangeMatches ==
    \E i \in 1..Len(semverAffected.ranges) :
        /\ semverAffected.ranges[i].type = "SEMVER"
        /\ isVersionInSemverRange(semverPkg.version, semverAffected.ranges[i])

\* C21: isPackageAffected is true if and only if the names are equal and
\* either the version is in the explicit version list or some SEMVER range
\* matches the version; ranges of another kind never contribute.
C21_AffectedIffListedOrInSemverRange ==
    Matched =>
        (semverResult[1] <=>
            (/\ semverAffected.package.name = semverPkg.name
             /\ (InExplicitVersions \/ SomeSemverRangeMatches)))

\* the names are equal, the version is not listed, and the only range whose
\* window holds the version is not a SEMVER range: not affected
C21_Witness ==
    /\ Matched
    /\ semverAffected.package.name = semverPkg.name
    /\ ~InExplicitVersions
    /\ \E i \in 1..Len(semverAffected.ranges) :
          /\ semverAffected.ranges[i].type # "SEMVER"
          /\ isVersionInSemverRange(semverPkg.version, semverAffected.ranges[i])
    /\ semverResult = <<FALSE>>

\* isPackageAffected was applied to one SEMVER range with these events,
\* equal names and no explicit version list
OneRange(events) ==
    /\ Matched
    /\ semverAffected.package.name = semverPkg.name
    /\ semverAffected.versions = <<>>
    /\ semverAffected.ranges = << [type |-> "SEMVER", events |-> events] >>

\* a <= v, where "0" is no lower bound
AtLeast(v, a) == a = <<0>> \/ VersionNumber(v) >= VersionNumber(a)

\* C22: with events [introduced a, fixed b] a version v matches if and only
\* if a <= v < b, "0" being no lower bound; with [introduced a,
\* last_affected c] if and only if a <= v <= c.
C22_WindowBounds ==
    \A a \in SemverVersions \cup { <<0>> } : \A b \in SemverVersions :
        /\ OneRange(<<Introduced(a), Fixed(b)>>)
              => (semverResult[1] <=>
                     (/\ AtLeast(semverPkg.version, a)
                      /\ VersionNumber(semverPkg.version) < VersionNumber(b)))
        /\ OneRange(<<Introduced(a), LastAffected(b)>>)
              => (semverResult[1] <=>
                     (/\ AtLeast(semverPkg.version, a)
                      /\ VersionNumber(semverPkg.version) <= VersionNumber(b)))

\* the fixed version itself, with no lower bound, is not matched
C22_Witness ==
    /\ OneRange(<<Introduced(<<0>>), Fixed(semverPkg.version)>>)
    /\ semverResult = <<FALSE>>

\* the version meets the constraint an event states
MeetsEvent(v, event) ==
    /\ event.introduced # <<>> => AtLeast(v, event.introduced[1])
    /\ event.fixed # <<>> => VersionNumber(v) < VersionNumber(event.fixed[1])
    /\ event.last_affected # <<>>
          => VersionNumber(v) <= VersionNumber(event.last_affected[1])

\* events encoding the windows [a1, b1) and [a2, b2) with b1 <= a2
TwoWindows(events) ==
    /\ Len(events) = 4
    /\ \E a1 \in SemverVersions \cup { <<0>> } : \E b1, a2, b2 \in SemverVersions :
          /\ events = <<Introduced(a1), Fixed(b1), Introduced(a2), Fixed(b2)>>
          /\ a1 = <<0>> \/ VersionNumber(a1) < VersionNumber(b1)
          /\ VersionNumber(b1) <= VersionNumber(a2)
          /\ VersionNumber(a2) < VersionNumber(b2)

----------------------------------------------------------------------------
(* Properties of the advisory's url and description, checked under         *)
(* SpecAdvisory                                                            *)

AdvisoryMade == pc = "a_done"

\* the reference is of type advisory or on a recognised advisory platform
IsAdvisoryReference(ref) ==
    ref.type = "ADVISORY" \/ ref.url[2] = "github.com/advisories"

\* the reference is on a recognised CVE-tracking host
IsCveReference(ref) == ref.url[2] = "cve.mitre.org"

\* the url of the first reference that meets the test, <<>> when none does
FirstUrl(refs, Test(_)) ==
    LET hits == { i \in 1..Len(refs) : Test(refs[i]) }
    IN  IF hits = {} THEN <<>>
        ELSE << refs[CHOOSE i \in hits : \A j \in hits : i <= j].url >>

PriorityUrl(refs) ==
    IF FirstUrl(refs, IsAdvisoryReference) # <<>> THEN FirstUrl(refs, IsAdvisoryReference)
    ELSE IF FirstUrl(refs, IsCveReference) # <<>> THEN FirstUrl(refs, IsCveReference)
    ELSE IF Len(refs) > 0 THEN << refs[1].url >>
    ELSE <<>>

\* C24: the advisory url is that of the first advisory reference, else of
\* the first reference on a CVE-tracking host, else of the first reference,
\* else null.
C24_UrlByPriority ==
    AdvisoryMade => advisory.url = PriorityUrl(issueAttrs.references)

\* the description of the advisory was cut at MAX_DESCRIPTION_LENGTH - 3 and
\* closed with an ellipsis
HardTruncated ==
    /\ snykVuln.description # <<>>
    /\ Len(Trim(snykVuln.description[1])) > MAX_DESCRIPTION_LENGTH
    /\ \/ FirstSentence(Trim(snykVuln.description[1])) = <<>>
       \/ Len(FirstSentence(Trim(snykVuln.description[1]))[1]) > MAX_DESCRIPTION_LENGTH

\* C25: the description of an advisory is null or at most
\* MAX_DESCRIPTION_LENGTH characters long, whichever field it was taken from;
\* a hard-truncated one has exactly that length and ends with "...".
C25_DescriptionBounded ==
    AdvisoryMade =>
        /\ advisory.description # <<>>
              => Len(advisory.description[1]) <= MAX_DESCRIPTION_LENGTH
        /\ HardTruncated =>
              /\ Len(advisory.description[1]) = MAX_DESCRIPTION_LENGTH
              /\ SubSeq(advisory.description[1], MAX_DESCRIPTION_LENGTH - 2,
                        MAX_DESCRIPTION_LENGTH) = <<".", ".", ".">>

----------------------------------------------------------------------------
(* Termination of OSVClient.queryVulnerabilities, checked under SpecOSVLive *)

\* C26: every call of queryVulnerabilities eventually returns when every
\* request is eventually answered, also when the API returns a continuation
\* token with every page.
C26_EventuallyReturns == <>(pc = "o_done")

----------------------------------------------------------------------------
(* Further properties of OSVClient.queryVulnerabilities, checked under     *)
(* SpecOSV                                                                 *)

\* C27: in the batch strategy the pages behind a continuation token of a
\* batch response are requested: once the call has returned, every
\* identifier the database lists for a package of a successful chunk has had
\* its detail fetched, those behind a token included.
C27_BatchPagesFollowed ==
    (pc = "o_done" /\ BatchLoopOver) =>
        \A j \in 1..Len(chunkLog) : \A i \in 1..Len(chunkLog[j].withheld) :
            chunkLog[j].ok => DetailCalls(chunkLog[j].withheld[i]) > 0

\* the records the responses hold, in the order of the input: for the
\* individual strategy the pages of each query, query by query; for the
\* batch strategy the records of the identifiers whose detail fetch
\* succeeded, in the order the chunks listed the identifiers
RecordsInInputOrder ==
    IF UsesBatch(useBatch, OSVQueries(uniquePackages))
    THEN LET listed == NewSet(Flatten([j \in 1..Len(chunkLog) |->
                                          IF chunkLog[j].ok THEN NewSet(chunkLog[j].ids)
                                          ELSE <<>>]))
         IN  Flatten([k \in 1..Len(listed) |->
                         IF k \in DOMAIN detail /\ detail[k].state = "ok"
                         THEN << DetailRecord(listed[k]) >> ELSE <<>>])
    ELSE Flatten([k \in 1..Len(single) |->
                     Flatten([p \in 1..Len(single[k].pages) |->
                                 single[k].pages[p].vulns])])

\* C28: the records queryVulnerabilities returns, and their order, are
\* determined by the input order and the contents of the responses, whatever
\* the order in which the concurrent calls settled.
C28_OrderIndependentOfCompletion ==
    pc = "o_done" => vulnerabilities = RecordsInInputOrder

\* the k-th concurrent call contributed a record
Contributed(k) ==
    IF single # <<>> THEN Len(single[k].allVulns) > 0 ELSE detail[k].state = "ok"

\* a call settled before an earlier call and both contributed records
C28_Witness ==
    /\ pc = "o_done"
    /\ \E i \in 1..Len(settled) : \E k \in 1..(settled[i] - 1) :
          /\ Contributed(settled[i])
          /\ Contributed(k)

\* number of distinct name@version keys of the input
DistinctPackages == Cardinality({ Key(packages[i]) : i \in 1..Len(packages) })

\* a batch request has been sent, or the batch loop is running
BatchStrategyUsed ==
    pc \in {"o_batch", "o_bfetch", "o_bsleep", "o_detail"} \/ Len(chunkLog) > 0

\* querySinglePackage calls have been started
IndividualStrategyUsed == Len(single) > 0

\* C29: queryVulnerabilities uses the batch strategy if and only if batching
\* is enabled and more than one package is left after deduplication;
\* otherwise, for a non-empty input, it uses the individual strategy, one
\* call for each distinct package, and sends no batch request.
C29_StrategySelection ==
    pc # "o_start" =>
        /\ BatchStrategyUsed <=> (useBatch /\ DistinctPackages > 1)
        /\ BatchStrategyUsed => ~IndividualStrategyUsed
        /\ (Len(packages) > 0 /\ ~(useBatch /\ DistinctPackages > 1))
              => /\ Len(single) = DistinctPackages
                 /\ Len(chunkLog) = 0
                 /\ Len(uniqueIds) = 0

\* batching enabled and several copies of one name@version: one individual
\* query, no batch request
C29_Witness ==
    /\ pc = "o_done"
    /\ useBatch
    /\ Len(packages) > 1
    /\ DistinctPackages = 1
    /\ Len(single) = 1
    /\ Len(chunkLog) = 0

----------------------------------------------------------------------------
(* The Retry-After header, checked under Spec *)

RECURSIVE DecimalValue(_)
\* the number a string of decimal digits states
DecimalValue(digits) ==
    IF Len(digits) = 0 THEN 0
    ELSE 10 * DecimalValue(SubSeq(digits, 1, Len(digits) - 1))
            + (CHOOSE d \in 0..9 : Digit[d + 1] = digits[Len(digits)])

\* C30: after a 429 response with a Retry-After header of N seconds the
\* timer that precedes the next attempt of the request runs for at least N
\* seconds.
C30_RetryAfterRespected ==
    \A retryAfter \in RetryAfterValues \ { <<>> } :
        (pc = "sleep" /\ lastStatus = 429 /\ lastError = RateLimitError(retryAfter))
            => sleeps[Len(sleeps)] >= DecimalValue(retryAfter) * 1000 * TimeScale

====
